---- MODULE Spec2Model ----
(***************************************************************************)
(* A model of the sitemap ingestion-and-analytics engine of                *)
(* sitemap_server.py: the XML normalizer, the sitemap type classifier, the *)
(* update-pattern analyzer and the tool entry points that drive them.      *)
(*                                                                         *)
(* Python values are tagged records; a Python string is the sequence of    *)
(* its characters, so that substring tests, date parsing and number        *)
(* parsing are computed and not assumed.  A call that can raise returns    *)
(* [exc, val]: exc = "" when the call returned val, and the name of the    *)
(* exception class otherwise.                                              *)
(***************************************************************************)
EXTENDS Integers, Sequences, FiniteSets, TLC

VARIABLES
    sitemap_data,   \* unit harness: the parsed tree handed to the normalizer
    details_in,     \* unit harness: the record list handed to the analyzers
    clock,          \* what datetime.now() returns (a naive datetime)
    unit,           \* unit harness: the helper that was called and its outcome
    tool,           \* request: the entry point being served ("" when idle)
    pc,             \* request: the position inside the entry point
    response,       \* request: what requests.get + xmltodict.parse will give
    parsed_data,    \* request: local parsed_data
    url_details,    \* request: local url_details (or urls for parse)
    update_analysis,\* request: local update_analysis
    progress,       \* request: the `done` values passed to ctx.report_progress
    error_calls,    \* request: the messages passed to ctx.error
    result,         \* request: the value returned to the caller
    limit_arg,      \* request: the limit argument of extract_domain_info
    invocations,    \* how many entry points and resources were invoked so far
    fetches,        \* how many times requests.get was called so far
    current,        \* the request whose coroutine is running
    frames          \* the local variables of the suspended coroutines

vars == <<sitemap_data, details_in, clock, unit, tool, pc, response,
          parsed_data, url_details, update_analysis, progress, error_calls,
          result, limit_arg, invocations, fetches, current, frames>>

(***************************************************************************)
(* Python values                                                           *)
(***************************************************************************)
PyNone == [k |-> "None"]
PyStr(s) == [k |-> "str", s |-> s]
PyDict(m) == [k |-> "dict", m |-> m]
PyList(xs) == [k |-> "list", items |-> xs]

Ok(v) == [exc |-> "", val |-> v]
Raise(e) == [exc |-> e, val |-> PyNone]

\* the statements F that follow a call: run on what the call returned, skipped
\* when it raised
Then(r, F(_)) == IF r.exc # "" THEN Raise(r.exc) ELSE F(r.val)

\* bool(x) for the values the program tests for truth
Truthy(x) ==
    CASE x.k = "None" -> FALSE
      [] x.k = "str" -> Len(x.s) > 0
      [] x.k = "dict" -> DOMAIN x.m # {}
      [] x.k = "list" -> Len(x.items) > 0
      [] OTHER -> TRUE

\* the characters of the dictionary keys the program looks up
KeyChars(key) ==
    CASE key = "urlset" -> <<"u","r","l","s","e","t">>
      [] key = "sitemapindex" -> <<"s","i","t","e","m","a","p","i","n","d","e","x">>
      [] key = "url" -> <<"u","r","l">>
      [] key = "sitemap" -> <<"s","i","t","e","m","a","p">>
      [] key = "loc" -> <<"l","o","c">>
      [] key = "lastmod" -> <<"l","a","s","t","m","o","d">>
      [] key = "changefreq" -> <<"c","h","a","n","g","e","f","r","e","q">>
      [] key = "priority" -> <<"p","r","i","o","r","i","t","y">>
      [] OTHER -> <<"T">>

\* str.__contains__: sub occurs in s as a contiguous run
IsSubstring(sub, s) ==
    \E i \in 0..(Len(s) - Len(sub)) :
        \A j \in 1..Len(sub) : s[i + j] = sub[j]

\* the expression  key in x
PyIn(key, x) ==
    CASE x.k = "dict" -> Ok(key \in DOMAIN x.m)
      [] x.k = "str" -> Ok(IsSubstring(KeyChars(key), x.s))
      [] x.k = "list" -> Ok(\E i \in 1..Len(x.items) : x.items[i] = PyStr(KeyChars(key)))
      [] OTHER -> Raise("TypeError")

\* the expression  x[key]  with a string key
PyGetItem(x, key) ==
    CASE x.k = "dict" -> IF key \in DOMAIN x.m THEN Ok(x.m[key]) ELSE Raise("KeyError")
      [] OTHER -> Raise("TypeError")

\* dict.get(key)
PyGet(x, key) ==
    CASE x.k = "dict" -> IF key \in DOMAIN x.m THEN Ok(x.m[key]) ELSE Ok(PyNone)
      [] OTHER -> Raise("AttributeError")

(***************************************************************************)
(* Strings, numbers and dates as the library calls compute them            *)
(***************************************************************************)
DigitChars == <<"0","1","2","3","4","5","6","7","8","9">>
IsDigit(c) == \E d \in 1..10 : DigitChars[d] = c
DigitVal(c) == (CHOOSE d \in 1..10 : DigitChars[d] = c) - 1
AllDigits(s) == \A i \in 1..Len(s) : IsDigit(s[i])

\* int(s) for a run of decimal digits
RECURSIVE DigitsToInt(_)
DigitsToInt(s) ==
    IF s = <<>> THEN 0
    ELSE 10 * DigitsToInt(SubSeq(s, 1, Len(s) - 1)) + DigitVal(s[Len(s)])

\* str(n) for n >= 0
RECURSIVE IntToChars(_)
IntToChars(n) ==
    IF n < 10 THEN <<DigitChars[n + 1]>>
    ELSE IntToChars(n \div 10) \o <<DigitChars[(n % 10) + 1]>>

\* c in s, for one character
HasChar(s, c) == \E i \in 1..Len(s) : s[i] = c

\* s.replace(c, by), c one character
RECURSIVE StrReplace(_, _, _)
StrReplace(s, c, by) ==
    IF s = <<>> THEN <<>>
    ELSE (IF Head(s) = c THEN by ELSE <<Head(s)>>) \o StrReplace(Tail(s), c, by)

\* s.find(c) + 1 restricted to the characters of cs: the first position of s
\* holding a character of cs, or Len(s) + 1
FirstOf(s, cs) ==
    IF \E i \in 1..Len(s) : s[i] \in cs
    THEN CHOOSE i \in 1..Len(s) : s[i] \in cs /\ \A j \in 1..(i - 1) : s[j] \notin cs
    ELSE Len(s) + 1

\* s.split(c), c one character
RECURSIVE StrSplit(_, _)
StrSplit(s, c) ==
    IF ~HasChar(s, c) THEN <<s>>
    ELSE LET i == CHOOSE j \in 1..Len(s) : s[j] = c /\ \A h \in 1..(j - 1) : s[h] # c IN
         <<SubSeq(s, 1, i - 1)>> \o StrSplit(SubSeq(s, i + 1, Len(s)), c)

IsLeap(y) == (y % 4 = 0 /\ y % 100 # 0) \/ y % 400 = 0

DaysInMonth(y, m) ==
    IF m = 2 THEN (IF IsLeap(y) THEN 29 ELSE 28)
    ELSE IF m \in {4, 6, 9, 11} THEN 30 ELSE 31

\* days from 1970-01-01 to the date y-m-d of the proleptic Gregorian calendar
DaysFromCivil(y, m, d) ==
    LET yy == IF m <= 2 THEN y - 1 ELSE y
        era == yy \div 400
        yoe == yy - era * 400
        mp == (m + 9) % 12
        doy == (153 * mp + 2) \div 5 + d - 1
        doe == yoe * 365 + yoe \div 4 - yoe \div 100 + doy
    IN  era * 146097 + doe - 719468

\* datetime(y, m, d, hh, mm, ss, tzinfo): aware iff a tzinfo is given; secs is
\* the wall-clock time in seconds since 1970-01-01T00:00:00, off the UTC offset
MkDatetime(y, m, d, hh, mm, ss, aware, off) ==
    IF /\ y \in 1..9999 /\ m \in 1..12 /\ d >= 1 /\ d <= DaysInMonth(y, m)
       /\ hh \in 0..23 /\ mm \in 0..59 /\ ss \in 0..59
    THEN Ok([k |-> "datetime", aware |-> aware, off |-> off,
             secs |-> DaysFromCivil(y, m, d) * 86400 + hh * 3600 + mm * 60 + ss])
    ELSE Raise("ValueError")

\* the fields of '%Y-%m-%d': four digits, one or two, one or two
YmdFields(parts) ==
    IF /\ Len(parts) = 3
       /\ Len(parts[1]) = 4 /\ AllDigits(parts[1])
       /\ Len(parts[2]) \in {1, 2} /\ AllDigits(parts[2])
       /\ Len(parts[3]) \in {1, 2} /\ AllDigits(parts[3])
    THEN MkDatetime(DigitsToInt(parts[1]), DigitsToInt(parts[2]), DigitsToInt(parts[3]),
                    0, 0, 0, FALSE, 0)
    ELSE Raise("ValueError")

\* datetime.strptime(s, '%Y-%m-%d')
strptime_Ymd(s) == YmdFields(StrSplit(s, "-"))

\* two digits
TwoDigits(s) == Len(s) = 2 /\ AllDigits(s)

\* the date-only form of fromisoformat: YYYY-MM-DD, two digits each
strptime_Ymd_strict(s) ==
    IF /\ AllDigits(SubSeq(s, 1, 4)) /\ s[5] = "-"
       /\ AllDigits(SubSeq(s, 6, 7)) /\ s[8] = "-"
       /\ AllDigits(SubSeq(s, 9, 10))
    THEN MkDatetime(DigitsToInt(SubSeq(s, 1, 4)), DigitsToInt(SubSeq(s, 6, 7)),
                    DigitsToInt(SubSeq(s, 9, 10)), 0, 0, 0, FALSE, 0)
    ELSE Raise("ValueError")

\* HH, HH:MM or HH:MM:SS split at the colons, as <<hh, mm, ss>>, or <<>> when
\* the parts have another form
IsoTimeFields(parts) ==
    IF Len(parts) \in 1..3 /\ \A i \in 1..Len(parts) : TwoDigits(parts[i])
    THEN <<DigitsToInt(parts[1]),
           IF Len(parts) >= 2 THEN DigitsToInt(parts[2]) ELSE 0,
           IF Len(parts) = 3 THEN DigitsToInt(parts[3]) ELSE 0>>
    ELSE <<>>

\* the time of day of an ISO string
IsoTime(s) == IsoTimeFields(StrSplit(s, ":"))

\* the datetime of an ISO string split into its date, its time of day and
\* its offset (has_tz, the text tz after the sign, its fields tzt, the sign)
IsoDatetime(date, time, has_tz, tz, tzt, sign) ==
    IF /\ AllDigits(SubSeq(date, 1, 4)) /\ date[5] = "-"
       /\ AllDigits(SubSeq(date, 6, 7)) /\ date[8] = "-"
       /\ AllDigits(SubSeq(date, 9, 10))
       /\ time # <<>>
       /\ has_tz => (Len(tz) = 5 /\ tzt # <<>> /\ tzt[1] <= 23 /\ tzt[2] <= 59)
    THEN MkDatetime(DigitsToInt(SubSeq(date, 1, 4)), DigitsToInt(SubSeq(date, 6, 7)),
                    DigitsToInt(SubSeq(date, 9, 10)), time[1], time[2], time[3],
                    has_tz, sign * (tzt[1] * 3600 + tzt[2] * 60))
    ELSE Raise("ValueError")

\* the offset of an ISO string, if any, starts at the first sign of rest,
\* at position cut
IsoOffset(date, rest, cut, tz) ==
    IsoDatetime(date, IsoTime(SubSeq(rest, 1, cut - 1)), cut <= Len(rest), tz,
                IF cut <= Len(rest) THEN IsoTime(tz) ELSE <<0, 0, 0>>,
                IF cut <= Len(rest) /\ rest[cut] = "-" THEN 0 - 1 ELSE 1)

IsoRest(date, rest, cut) == IsoOffset(date, rest, cut, SubSeq(rest, cut + 1, Len(rest)))

\* datetime.fromisoformat(s) for YYYY-MM-DD, a separator, HH[:MM[:SS]] and
\* an optional offset +HH:MM or -HH:MM (no fractions of a second)
fromisoformat(s) ==
    IF Len(s) = 10 THEN strptime_Ymd_strict(s)
    ELSE IF Len(s) < 13 THEN Raise("ValueError")
    ELSE IsoRest(SubSeq(s, 1, 10), SubSeq(s, 12, Len(s)),
                 FirstOf(SubSeq(s, 12, Len(s)), {"+", "-"}))

\* the date policy of lines 484-487 (and 333-336, 519-522)
ParseLastmod(lastmod) ==
    IF HasChar(lastmod, "T")
    THEN fromisoformat(StrReplace(lastmod, "Z", <<"+","0","0",":","0","0">>))
    ELSE strptime_Ymd(lastmod)

\* a < b for datetimes: naive and aware do not compare
DtLess(a, b) ==
    IF a.aware # b.aware THEN Raise("TypeError")
    ELSE Ok(a.secs - a.off < b.secs - b.off)

\* (a - b).days: the difference, floored to whole days
DtDays(a, b) ==
    IF a.aware # b.aware THEN Raise("TypeError")
    ELSE Ok(((a.secs - a.off) - (b.secs - b.off)) \div 86400)

\* float(s) for [-]digits[.digits], inf, infinity and nan
FloatOf(neg, body, parts) ==
    IF body \in {<<"i","n","f">>, <<"i","n","f","i","n","i","t","y">>}
    THEN Ok([k |-> "float", kind |-> "inf", neg |-> neg, num |-> 0, den |-> 1])
    ELSE IF body = <<"n","a","n">>
    THEN Ok([k |-> "float", kind |-> "nan", neg |-> neg, num |-> 0, den |-> 1])
    ELSE IF /\ Len(parts) \in {1, 2}
            /\ \A i \in 1..Len(parts) : AllDigits(parts[i])
            /\ \E i \in 1..Len(parts) : Len(parts[i]) > 0
    THEN Ok([k |-> "float", kind |-> "finite", neg |-> neg,
             num |-> DigitsToInt(parts[1] \o (IF Len(parts) = 2 THEN parts[2] ELSE <<>>)),
             den |-> 10 ^ (IF Len(parts) = 2 THEN Len(parts[2]) ELSE 0)])
    ELSE Raise("ValueError")

FloatBody(neg, body) == FloatOf(neg, body, StrSplit(body, "."))

ParseFloat(s) ==
    FloatBody(Len(s) > 0 /\ s[1] = "-",
              IF Len(s) > 0 /\ s[1] \in {"-", "+"} THEN Tail(s) ELSE s)

\* mutant of IntOfTimesTen: the product is rounded to the nearest integer
IntOfTimesTen_Rounded(f) ==
    IF f.kind = "inf" THEN Raise("OverflowError")
    ELSE IF f.kind = "nan" THEN Raise("ValueError")
    ELSE LET q == (f.num * 20 + f.den) \div (2 * f.den) IN
         Ok(IF f.neg THEN 0 - q ELSE q)

\* int(f * 10): truncation toward zero; infinity and NaN do not convert
IntOfTimesTen(f) ==
    IF f.kind = "inf" THEN Raise("OverflowError")
    ELSE IF f.kind = "nan" THEN Raise("ValueError")
    ELSE LET q == (f.num * 10) \div f.den IN
         Ok(IF f.neg THEN 0 - q ELSE q)

\* f"{n / 10:.1f}" for an int n
FormatTenths(n) ==
    LET a == IF n < 0 THEN 0 - n ELSE n IN
    (IF n < 0 THEN <<"-">> ELSE <<>>)
        \o IntToChars(a \div 10) \o <<".">> \o <<DigitChars[(a % 10) + 1]>>

(***************************************************************************)
(* urllib.parse.urlparse, as far as the host and the path                  *)
(***************************************************************************)
Letters ==
    {"a","b","c","d","e","f","g","h","i","j","k","l","m","n","o","p","q","r","s","t",
     "u","v","w","x","y","z","A","B","C","D","E","F","G","H","I","J","K","L","M","N",
     "O","P","Q","R","S","T","U","V","W","X","Y","Z"}
SchemeChars == Letters \cup {"0","1","2","3","4","5","6","7","8","9","+","-","."}

\* str.lower() on ASCII text
UpperChars ==
    <<"A","B","C","D","E","F","G","H","I","J","K","L","M","N","O","P","Q","R","S","T",
      "U","V","W","X","Y","Z">>
LowerChars ==
    <<"a","b","c","d","e","f","g","h","i","j","k","l","m","n","o","p","q","r","s","t",
      "u","v","w","x","y","z">>
LowerChar(c) ==
    IF \E i \in 1..26 : UpperChars[i] = c
    THEN LowerChars[CHOOSE i \in 1..26 : UpperChars[i] = c]
    ELSE c
StrLower(s) == [i \in 1..Len(s) |-> LowerChar(s[i])]

\* urllib.parse.uses_params
UsesParams ==
    {<<>>, <<"f","t","p">>, <<"h","d","l">>, <<"p","r","o","s","p","e","r","o">>,
     <<"h","t","t","p">>, <<"i","m","a","p">>, <<"h","t","t","p","s">>,
     <<"s","h","t","t","p">>, <<"r","t","s","p">>, <<"r","t","s","p","u">>,
     <<"s","i","p">>, <<"s","i","p","s">>, <<"m","m","s">>, <<"s","f","t","p">>,
     <<"t","e","l">>}

\* s.rfind(c) + 1, or 0 when c is not in s
LastOf(s, c) ==
    IF HasChar(s, c) THEN CHOOSE i \in 1..Len(s) : s[i] = c /\ \A j \in (i + 1)..Len(s) : s[j] # c
    ELSE 0

\* _splitparams(url)[0]: the path up to the first ';' of its last segment
SplitParams(path, start) ==
    IF \E i \in start..Len(path) : path[i] = ";"
    THEN SubSeq(path, 1, (CHOOSE i \in start..Len(path) :
                             path[i] = ";" /\ \A j \in start..(i - 1) : path[j] # ";") - 1)
    ELSE path

\* the path of urlparse: without its params for a scheme that uses them
UrlPath(scheme, path) ==
    IF scheme \in UsesParams /\ HasChar(path, ";")
    THEN SplitParams(path, IF HasChar(path, "/") THEN LastOf(path, "/") ELSE 1)
    ELSE path

\* the result of urlparse for the scheme, the host and what follows the host
UrlResult(scheme, netloc, tail) ==
    IF HasChar(netloc, "[") # HasChar(netloc, "]") THEN Raise("ValueError")
    ELSE Ok([scheme |-> PyStr(scheme), netloc |-> PyStr(netloc),
             path |-> PyStr(UrlPath(scheme, SubSeq(tail, 1, FirstOf(tail, {"?", "#"}) - 1)))])

\* the host ends at position delim of the text after the two slashes
UrlAfterNetloc(scheme, after, delim) ==
    UrlResult(scheme, SubSeq(after, 1, delim - 1), SubSeq(after, delim, Len(after)))

\* the text after the scheme holds a host when it starts with two slashes
UrlSplitNetloc(scheme, rest) ==
    IF Len(rest) >= 2 /\ rest[1] = "/" /\ rest[2] = "/"
    THEN UrlAfterNetloc(scheme, SubSeq(rest, 3, Len(rest)),
                        FirstOf(SubSeq(rest, 3, Len(rest)), {"/", "?", "#"}))
    ELSE UrlAfterNetloc(scheme, rest, 1)

\* the scheme is the text before the first colon, at position i, when it
\* starts with a letter and holds scheme characters only
UrlSplitScheme(u, i) ==
    IF /\ i > 1 /\ i <= Len(u) /\ u[1] \in Letters
       /\ \A j \in 1..(i - 1) : u[j] \in SchemeChars
    THEN UrlSplitNetloc(StrLower(SubSeq(u, 1, i - 1)), SubSeq(u, i + 1, Len(u)))
    ELSE UrlSplitNetloc(<<>>, u)

\* urlparse(url) for a str: [scheme, netloc, path], or
\* ValueError for a host with an unbalanced bracket; urlparse(None) gives the
\* empty bytes result
urlparse(url) ==
    IF url.k = "None"
    THEN Ok([scheme |-> [k |-> "bytes", s |-> <<>>], netloc |-> [k |-> "bytes", s |-> <<>>],
             path |-> [k |-> "bytes", s |-> <<>>]])
    ELSE IF url.k # "str" THEN Raise("AttributeError")
    ELSE UrlSplitScheme(url.s, FirstOf(url.s, {":"}))

(***************************************************************************)
(* XML normalizer and sitemap type classifier                              *)
(***************************************************************************)
\* mutant of UrlInfo: the index branch copies changefreq and priority too
UrlInfo_KeepsIndexTags(entry, is_index) ==
    [loc |-> PyGetItem(entry, "loc").val,
     lastmod |-> PyGet(entry, "lastmod").val,
     changefreq |-> PyGet(entry, "changefreq").val,
     priority |-> PyGet(entry, "priority").val]

\* the dictionary literal built at lines 395-400 / 421-426 from one entry:
\* a sitemap-index record gets changefreq and priority None
UrlInfo(entry, is_index) ==
    [loc |-> PyGetItem(entry, "loc").val,
     lastmod |-> PyGet(entry, "lastmod").val,
     changefreq |-> IF is_index THEN PyNone ELSE PyGet(entry, "changefreq").val,
     priority |-> IF is_index THEN PyNone ELSE PyGet(entry, "priority").val]

\* the body run for one entry:  if 'loc' in entry: url_details.append(url_info)
\* gives the records to append (none or one), or the exception raised
AppendIfLoc(entry, is_index) ==
    Then(PyIn("loc", entry), LAMBDA has :
        IF ~has THEN Ok(<<>>)
        ELSE Then(PyGetItem(entry, "loc"), LAMBDA loc : Ok(<<UrlInfo(entry, is_index)>>)))

\* for entry in url_entries: ... over the entries lo..hi: what the loop
\* appends, or the first exception, which stops it.  The range is walked by
\* halves, so that the iterations of a long list do not nest.
RECURSIVE ForEachEntry(_, _, _, _)
ForEachEntry(entries, is_index, lo, hi) ==
    IF lo > hi THEN Ok(<<>>)
    ELSE IF lo = hi THEN AppendIfLoc(entries[lo], is_index)
    ELSE Then(ForEachEntry(entries, is_index, lo, (lo + hi) \div 2), LAMBDA first :
             Then(ForEachEntry(entries, is_index, (lo + hi) \div 2 + 1, hi), LAMBDA rest :
                 Ok(first \o rest)))

\* the body of one branch of _extract_url_details: container is
\* sitemap_data['urlset'] (child 'url') or sitemap_data['sitemapindex']
\* (child 'sitemap')
ExtractBranch(container, child, is_index) ==
    Then(PyIn(child, container), LAMBDA has :
        IF ~has THEN Ok(<<>>)
        ELSE Then(PyGetItem(container, child), LAMBDA entries :
                 IF entries.k = "list"
                 THEN ForEachEntry(entries.items, is_index, 1, Len(entries.items))
                 ELSE AppendIfLoc(entries, is_index)))

\* mutant of _extract_url_details: a tree without sitemapindex is walked as a
\* urlset under whatever its root is
_extract_url_details_AnyRoot(data) ==
    IF PyIn("sitemapindex", data).val
    THEN ExtractBranch(PyGetItem(data, "sitemapindex").val, "sitemap", TRUE)
    ELSE IF DOMAIN data.m = {} THEN Ok(<<>>)
    ELSE ExtractBranch(data.m[CHOOSE key \in DOMAIN data.m : TRUE], "url", FALSE)

_extract_url_details(data) ==
    IF PyIn("urlset", data).val
    THEN ExtractBranch(PyGetItem(data, "urlset").val, "url", FALSE)
    ELSE IF PyIn("sitemapindex", data).val
    THEN ExtractBranch(PyGetItem(data, "sitemapindex").val, "sitemap", TRUE)
    ELSE Ok(<<>>)

\* [item['loc'] for item in url_details]
_extract_urls(data) ==
    Then(_extract_url_details(data), LAMBDA url_details_ :
        Ok([i \in 1..Len(url_details_) |-> url_details_[i].loc]))

\* mutant of _detect_sitemap_type: the two checks in the other order
_detect_sitemap_type_IndexFirst(data) ==
    IF PyIn("sitemapindex", data).val THEN "sitemap_index"
    ELSE IF PyIn("urlset", data).val THEN "standard_sitemap"
    ELSE "unknown"

_detect_sitemap_type(data) ==
    IF PyIn("urlset", data).val THEN "standard_sitemap"
    ELSE IF PyIn("sitemapindex", data).val THEN "sitemap_index"
    ELSE "unknown"

(***************************************************************************)
(* Update-pattern analyzer                                                 *)
(***************************************************************************)
\* the exceptions the handlers at lines 475, 502 and 531 catch
Caught == {"ValueError", "TypeError"}

\* stats[key] = stats.get(key, 0) + 1
Count(stats, key) ==
    [x \in DOMAIN stats \cup {key} |->
        (IF x \in DOMAIN stats THEN stats[x] ELSE 0) + (IF x = key THEN 1 ELSE 0)]

EmptyStats == [x \in {} |-> 0]

\* lines 464-466
ChangefreqStep(stats, changefreq) ==
    IF Truthy(changefreq) THEN Count(stats, changefreq.s) ELSE stats

\* try: ... except (ValueError, TypeError): the statements F run on what the
\* call returned, and `otherwise` is what is left when it raised
Handled(r, otherwise, F(_)) == IF r.exc \in Caught THEN otherwise ELSE F(r.val)

\* lines 473-474 once int(priority_float * 10) was tried: OverflowError is
\* not among the exceptions the handler catches
PriorityCounted(stats, n) ==
    IF n.exc \in Caught THEN Ok(stats)
    ELSE IF n.exc # "" THEN Raise(n.exc)
    ELSE Ok(Count(stats, FormatTenths(n.val)))

\* lines 469-476: the new priority_stats, or the exception that escapes the
\* handler
PriorityStep(stats, priority) ==
    IF ~Truthy(priority) THEN Ok(stats)
    ELSE PriorityCounted(stats, Then(ParseFloat(priority.s), IntOfTimesTen))

\* lines 490-491
EarliestStep(l, d) ==
    IF l.date_range.earliest.k = "None" THEN Ok([l EXCEPT !.date_range.earliest = d])
    ELSE Then(DtLess(d, l.date_range.earliest), LAMBDA less :
             Ok(IF less THEN [l EXCEPT !.date_range.earliest = d] ELSE l))

\* lines 492-493
LatestStep(l, d) ==
    IF l.date_range.latest.k = "None" THEN Ok([l EXCEPT !.date_range.latest = d])
    ELSE Then(DtLess(l.date_range.latest, d), LAMBDA greater :
             Ok(IF greater THEN [l EXCEPT !.date_range.latest = d] ELSE l))

\* mutant of RecentStep: elif in place of the second if
RecentStep_Elif(l, d, now) ==
    Then(DtDays(now, d), LAMBDA days_diff :
        Ok([l EXCEPT !.recent_updates_7d = @ + (IF days_diff <= 7 THEN 1 ELSE 0),
                     !.recent_updates_30d =
                         @ + (IF days_diff > 7 /\ days_diff <= 30 THEN 1 ELSE 0)]))

\* lines 496-500
RecentStep(l, d, now) ==
    Then(DtDays(now, d), LAMBDA days_diff :
        Ok([l EXCEPT !.recent_updates_7d = @ + (IF days_diff <= 7 THEN 1 ELSE 0),
                     !.recent_updates_30d = @ + (IF days_diff <= 30 THEN 1 ELSE 0)]))

\* lines 489-500, the rest of the try body once the date d is parsed: an
\* exception leaves what was assigned before it
DateSteps(l1, d, now) ==
    Handled(EarliestStep(l1, d), l1, LAMBDA l2 :
        Handled(LatestStep(l2, d), l2, LAMBDA l3 :
            Handled(RecentStep(l3, d, now), l3, LAMBDA l4 : l4)))

\* line 481
CountLastmod(ls) == [ls EXCEPT !.total_with_lastmod = @ + 1]

\* lines 479-503: lastmod_stats after one item
LastmodStep(ls, lastmod, now) ==
    IF ~Truthy(lastmod) THEN ls
    ELSE Handled(ParseLastmod(lastmod.s), CountLastmod(ls), LAMBDA d :
             DateSteps(CountLastmod(ls), d, now))

\* lines 451-458
InitialStats ==
    [changefreq_distribution |-> EmptyStats,
     priority_distribution |-> EmptyStats,
     lastmod_analysis |->
        [total_with_lastmod |-> 0,
         date_range |-> [earliest |-> PyNone, latest |-> PyNone],
         recent_updates_7d |-> 0,
         recent_updates_30d |-> 0]]

\* lines 462-503: the loop over url_details, stopped by an escaping exception
RECURSIVE AnalyzeLoop(_, _, _)
AnalyzeLoop(items, acc, now) ==
    IF items = <<>> THEN Ok(acc)
    ELSE Then(PriorityStep(acc.priority_distribution, Head(items).priority), LAMBDA p :
             AnalyzeLoop(Tail(items),
                 [changefreq_distribution |->
                      ChangefreqStep(acc.changefreq_distribution, Head(items).changefreq),
                  priority_distribution |-> p,
                  lastmod_analysis |->
                      LastmodStep(acc.lastmod_analysis, Head(items).lastmod, now)],
                 now))

\* now is the value datetime.now() gives at line 460
_analyze_update_patterns(details, now) == AnalyzeLoop(details, InitialStats, now)

\* lines 515-532: the records with a parseable lastmod, with the parsed date
UpdateWithDate(item, d) ==
    IF d.exc # "" THEN <<>>
    ELSE <<[url |-> item.loc, lastmod |-> item.lastmod, lastmod_parsed |-> d.val,
            changefreq |-> item.changefreq, priority |-> item.priority]>>

RECURSIVE UpdatesWithDates(_)
UpdatesWithDates(items) ==
    IF items = <<>> THEN <<>>
    ELSE UpdateWithDate(Head(items),
                        IF Truthy(Head(items).lastmod)
                        THEN ParseLastmod(Head(items).lastmod.s)
                        ELSE Raise("ValueError"))
         \o UpdatesWithDates(Tail(items))

\* the instant a datetime is ordered by among datetimes of its kind
Instant(d) == d.secs - d.off

\* mutant of InsertDesc: x goes before the elements whose key equals its own
RECURSIVE InsertDesc_BeforeEqual(_, _)
InsertDesc_BeforeEqual(sorted, x) ==
    IF sorted = <<>> THEN <<x>>
    ELSE IF Instant(Head(sorted).lastmod_parsed) > Instant(x.lastmod_parsed)
         THEN <<Head(sorted)>> \o InsertDesc_BeforeEqual(Tail(sorted), x)
         ELSE <<x>> \o sorted

\* list.sort(key=..., reverse=True) is stable: x goes after the elements whose
\* key is greater than or equal to its own
RECURSIVE InsertDesc(_, _)
InsertDesc(sorted, x) ==
    IF sorted = <<>> THEN <<x>>
    ELSE IF Instant(Head(sorted).lastmod_parsed) >= Instant(x.lastmod_parsed)
         THEN <<Head(sorted)>> \o InsertDesc(Tail(sorted), x)
         ELSE <<x>> \o sorted

RECURSIVE SortDesc(_, _)
SortDesc(items, sorted) ==
    IF items = <<>> THEN sorted
    ELSE SortDesc(Tail(items), InsertDesc(sorted, Head(items)))

\* line 535: the sort compares naive with aware datetimes when both occur
SortByLastmod(items) ==
    IF \E i, j \in 1..Len(items) :
          items[i].lastmod_parsed.aware # items[j].lastmod_parsed.aware
    THEN Raise("TypeError")
    ELSE Ok(SortDesc(items, <<>>))

\* mutant of SliceTo: the sequence is not cut
SliceTo_Uncut(seq, limit) == seq

\* seq[:limit]
SliceTo(seq, limit) ==
    LET n == IF limit >= 0 THEN (IF limit < Len(seq) THEN limit ELSE Len(seq))
             ELSE (IF Len(seq) + limit > 0 THEN Len(seq) + limit ELSE 0)
    IN  SubSeq(seq, 1, n)

\* lines 538-543: the entries without the parsed date
WithoutParsedDates(top) ==
    [i \in 1..Len(top) |->
        [url |-> top[i].url, lastmod |-> top[i].lastmod,
         changefreq |-> top[i].changefreq, priority |-> top[i].priority]]

_get_recent_updates(details, limit) ==
    Then(SortByLastmod(UpdatesWithDates(details)), LAMBDA sorted :
        Ok(WithoutParsedDates(SliceTo(sorted, limit))))

(***************************************************************************)
(* Bounded inputs: the strings and parsed trees the model ranges over     *)
(***************************************************************************)
MaxEntries == 2

Absent == [k |-> "absent"]

\* "https://a.com/x" and "https://b.org/y"
LocA == <<"h","t","t","p","s",":","/","/","a",".","c","o","m","/","x">>
LocB == <<"h","t","t","p","s",":","/","/","b",".","o","r","g","/","y">>
\* "2024-01-01", "daily", "0.8"
Date0101 == <<"2","0","2","4","-","0","1","-","0","1">>
Daily == <<"d","a","i","l","y">>
Prio08 == <<"0",".","8">>
\* element text that is not a mapping: "x" and "no loc"
TextX == <<"x">>
TextNoLoc == <<"n","o"," ","l","o","c">>

\* a dict holding the keys of c whose value is not Absent
MkDict(c) == PyDict([key \in {x \in DOMAIN c : c[x] # Absent} |-> c[key]])

EmptyDict == MkDict([loc |-> Absent])

SeqsUpTo(S, n) == UNION {[1..m -> S] : m \in 0..n}

\* what xmltodict gives for one <url> or <sitemap> element with children
RawEntries ==
    {MkDict([loc |-> l, lastmod |-> m, changefreq |-> t[1], priority |-> t[2]]) :
        l \in {Absent, PyNone, PyStr(LocA), PyStr(LocB)},
        m \in {Absent, PyStr(Date0101)},
        t \in {<<Absent, Absent>>, <<PyStr(Daily), PyStr(Prio08)>>}}

\* ... and for an empty element (None) or a text-only element (a str)
RawElements == RawEntries \cup {PyNone, PyStr(TextX), PyStr(TextNoLoc)}

\* the value under 'url' / 'sitemap': one element, or a list of elements
RawChildren ==
    RawElements \cup {PyList(xs) : xs \in SeqsUpTo(RawElements, MaxEntries)}

\* the value under 'urlset' / 'sitemapindex'
RawContainers(child) ==
    {PyNone, PyStr(TextX), EmptyDict}
        \cup {PyDict([key \in {child} |-> c]) : c \in RawChildren}

\* the few index containers paired with a urlset in a tree holding both keys
SmallIndexContainers ==
    {PyNone, EmptyDict,
     PyDict([key \in {"sitemap"} |-> MkDict([loc |-> PyStr(LocB)])]),
     PyDict([key \in {"sitemap"} |->
                PyList(<<MkDict([loc |-> PyStr(LocA), lastmod |-> PyStr(Date0101)])>>)])}

RawTrees ==
    {PyDict([key \in {"urlset"} |-> c]) : c \in RawContainers("url")}
        \cup {PyDict([key \in {"sitemapindex"} |-> c]) : c \in RawContainers("sitemap")}
        \cup {PyDict([key \in {"urlset", "sitemapindex"} |->
                        IF key = "urlset" THEN c ELSE d]) :
                c \in RawContainers("url"), d \in SmallIndexContainers}
        \cup {EmptyDict, PyDict([key \in {"foo"} |-> EmptyDict])}

(***************************************************************************)
(* Unit harness: one direct call of a helper, as the unit tests make       *)
(***************************************************************************)
NotCalled == [fn |-> "", ret |-> PyNone]

\* no request is being served
RequestIdle ==
    /\ tool = ""
    /\ pc = "idle"
    /\ response = PyNone
    /\ parsed_data = PyNone
    /\ url_details = <<>>
    /\ update_analysis = PyNone
    /\ progress = <<>>
    /\ error_calls = <<>>
    /\ result = PyNone
    /\ limit_arg = 0
    /\ invocations = 0
    /\ fetches = 0
    /\ current = 1
    /\ frames = <<>>

request_vars == <<tool, pc, response, parsed_data, url_details,
                  update_analysis, progress, error_calls, result, limit_arg,
                  invocations, fetches, current, frames>>

Call_extract_url_details ==
    /\ unit.fn = ""
    /\ unit' = [fn |-> "_extract_url_details", ret |-> _extract_url_details(sitemap_data)]
    /\ UNCHANGED <<sitemap_data, details_in, clock, request_vars>>

Call_extract_urls ==
    /\ unit.fn = ""
    /\ unit' = [fn |-> "_extract_urls", ret |-> _extract_urls(sitemap_data)]
    /\ UNCHANGED <<sitemap_data, details_in, clock, request_vars>>

Call_detect_sitemap_type ==
    /\ unit.fn = ""
    /\ unit' = [fn |-> "_detect_sitemap_type", ret |-> Ok(_detect_sitemap_type(sitemap_data))]
    /\ UNCHANGED <<sitemap_data, details_in, clock, request_vars>>

InitNormalizer ==
    /\ sitemap_data \in RawTrees
    /\ details_in = <<>>
    /\ clock = PyNone
    /\ unit = NotCalled
    /\ RequestIdle

NextNormalizer ==
    \/ Call_extract_url_details
    \/ Call_extract_urls
    \/ Call_detect_sitemap_type

SpecNormalizer == InitNormalizer /\ [][NextNormalizer]_vars

(***************************************************************************)
(* Claims about the normalizer and the classifier (SpecNormalizer)         *)
(***************************************************************************)
\* the <url>/<sitemap> elements of a tree, in document order: the elements of
\* the list under container.child, or the single value there
ElementsOf(tree, container, child) ==
    IF container \notin DOMAIN tree.m THEN <<>>
    ELSE LET c == tree.m[container] IN
         IF c.k # "dict" THEN <<>>
         ELSE IF child \notin DOMAIN c.m THEN <<>>
         ELSE IF c.m[child].k = "list" THEN c.m[child].items
         ELSE <<c.m[child]>>

HasLocKey(e) == e.k = "dict" /\ "loc" \in DOMAIN e.m
HasLocation(e) == HasLocKey(e) /\ Truthy(e.m["loc"])
FieldOrNone(e, key) == IF key \in DOMAIN e.m THEN e.m[key] ELSE PyNone

\* the records the elements selected by Keep stand for, fields verbatim
RecordsOf(elements, Keep(_), is_index) ==
    LET kept == SelectSeq(elements, Keep) IN
    [i \in 1..Len(kept) |->
        [loc |-> kept[i].m["loc"],
         lastmod |-> FieldOrNone(kept[i], "lastmod"),
         changefreq |-> IF is_index THEN PyNone ELSE FieldOrNone(kept[i], "changefreq"),
         priority |-> IF is_index THEN PyNone ELSE FieldOrNone(kept[i], "priority")]]

SameOutcome(a, b) == a.exc = b.exc /\ (a.exc = "" => a.val = b.val)

HasUrlset == "urlset" \in DOMAIN sitemap_data.m
HasIndex == "sitemapindex" \in DOMAIN sitemap_data.m
NormalizerCalled == unit.fn \in {"_extract_url_details", "_extract_urls"}

\* C1: the normalizer never fails: whatever the parsed tree, a call of
\* _extract_url_details or _extract_urls returns a sequence and raises nothing.
C1_NormalizerNeverRaises ==
    NormalizerCalled => unit.ret.exc = ""

\* C2: every record the normalizer returns has a non-empty location.
C2_NoEmptyLocation ==
    /\ unit.fn = "_extract_url_details" /\ unit.ret.exc = ""
          => \A i \in 1..Len(unit.ret.val) : Truthy(unit.ret.val[i].loc)
    /\ unit.fn = "_extract_urls" /\ unit.ret.exc = ""
          => \A i \in 1..Len(unit.ret.val) : Truthy(unit.ret.val[i])

\* C3: for a urlset document (urlset holding its url elements) the normalizer yields exactly one record per url
\* element that has a location, in document order and with the four fields
\* verbatim, and a single mapping under url gives what the one-element list
\* holding it gives.
C3_UrlsetRecords ==
    unit.fn = "_extract_url_details" /\ HasUrlset /\ sitemap_data.m["urlset"].k = "dict" =>
        /\ unit.ret.exc = ""
        /\ unit.ret.val = RecordsOf(ElementsOf(sitemap_data, "urlset", "url"), HasLocation, FALSE)
        /\ LET c == sitemap_data.m["urlset"] IN
           (c.k = "dict" /\ "url" \in DOMAIN c.m /\ c.m["url"].k = "dict") =>
               SameOutcome(unit.ret,
                   _extract_url_details(PyDict([key \in {"urlset"} |->
                       PyDict([k2 \in {"url"} |-> PyList(<<c.m["url"]>>)])])))

\* C4: every record produced from a sitemapindex document has changefreq and
\* priority unset whatever tags the raw entries carry, and loc and lastmod are
\* those of the entries, in order, for the list and the single-mapping shape.
C4_IndexRecordsUnset ==
    unit.fn = "_extract_url_details" /\ ~HasUrlset /\ HasIndex /\ unit.ret.exc = "" =>
        /\ \A i \in 1..Len(unit.ret.val) :
              unit.ret.val[i].changefreq = PyNone /\ unit.ret.val[i].priority = PyNone
        /\ LET kept == SelectSeq(ElementsOf(sitemap_data, "sitemapindex", "sitemap"), HasLocKey) IN
           /\ Len(unit.ret.val) = Len(kept)
           /\ \A i \in 1..Len(kept) :
                 /\ unit.ret.val[i].loc = kept[i].m["loc"]
                 /\ unit.ret.val[i].lastmod = FieldOrNone(kept[i], "lastmod")

\* C4 witness: an index record was produced from an entry carrying changefreq
\* and priority tags
C4_Witness ==
    /\ unit.fn = "_extract_url_details" /\ ~HasUrlset /\ HasIndex
    /\ unit.ret.exc = "" /\ Len(unit.ret.val) >= 1
    /\ \E i \in 1..Len(ElementsOf(sitemap_data, "sitemapindex", "sitemap")) :
          LET e == ElementsOf(sitemap_data, "sitemapindex", "sitemap")[i] IN
          HasLocKey(e) /\ "changefreq" \in DOMAIN e.m /\ "priority" \in DOMAIN e.m

\* the tree cut down to one of its top-level keys
OnlyKey(tree, key) == PyDict([k2 \in {key} |-> tree.m[k2]])

\* C5: _detect_sitemap_type depends on key presence only (urlset wins over
\* sitemapindex, neither gives unknown), and the normalizer takes the same
\* branch: with both keys its outcome is that of the urlset alone, with only
\* sitemapindex that of the index, and with neither it is empty.
C5_TypeByKeyPresence ==
    /\ unit.fn = "_detect_sitemap_type" =>
          /\ unit.ret.exc = ""
          /\ unit.ret.val = "standard_sitemap" <=> HasUrlset
          /\ unit.ret.val = "sitemap_index" <=> (HasIndex /\ ~HasUrlset)
          /\ unit.ret.val = "unknown" <=> (~HasIndex /\ ~HasUrlset)
    /\ unit.fn = "_extract_url_details" =>
          /\ HasUrlset =>
                SameOutcome(unit.ret,
                    ExtractBranch(sitemap_data.m["urlset"], "url", FALSE))
          /\ HasUrlset /\ unit.ret.exc = "" =>
                unit.ret.val = RecordsOf(ElementsOf(sitemap_data, "urlset", "url"), HasLocKey, FALSE)
          /\ ~HasUrlset /\ ~HasIndex => unit.ret.exc = "" /\ unit.ret.val = <<>>

\* C5 witness: both keys are present, each with records of its own, and the
\* classifier answered standard_sitemap
C5_Witness ==
    /\ unit.fn = "_detect_sitemap_type" /\ HasUrlset /\ HasIndex
    /\ unit.ret.val = "standard_sitemap"
    /\ SelectSeq(ElementsOf(sitemap_data, "urlset", "url"), HasLocKey) # <<>>
    /\ SelectSeq(ElementsOf(sitemap_data, "sitemapindex", "sitemap"), HasLocKey) # <<>>

(***************************************************************************)
(* Unit harness for the analyzers (SpecAnalyzer)                           *)
(***************************************************************************)
MaxRecords == 2

\* "2024-01-05", "2023-11-01", "2024-01-08T10:00:00", "2024-01-09T00:00:00Z",
\* "2023-12-01T00:00:00Z", "2024-13-01", "next week"
Date0105 == <<"2","0","2","4","-","0","1","-","0","5">>
Date1101 == <<"2","0","2","3","-","1","1","-","0","1">>
IsoNaive0108 == <<"2","0","2","4","-","0","1","-","0","8","T","1","0",":","0","0",":","0","0">>
IsoZ0109 == <<"2","0","2","4","-","0","1","-","0","9","T","0","0",":","0","0",":","0","0","Z">>
IsoZ1201 == <<"2","0","2","3","-","1","2","-","0","1","T","0","0",":","0","0",":","0","0","Z">>
DateMonth13 == <<"2","0","2","4","-","1","3","-","0","1">>
DateWords == <<"n","e","x","t"," ","w","e","e","k">>
\* "0.83", "0.85", "0.05", "1.0", "abc", "inf", "nan"
Prio083 == <<"0",".","8","3">>
Prio085 == <<"0",".","8","5">>
Prio005 == <<"0",".","0","5">>
Prio10 == <<"1",".","0">>
PrioAbc == <<"a","b","c">>
PrioInf == <<"i","n","f">>
PrioNan == <<"n","a","n">>

LastmodTexts == {Date0101, Date0105, Date1101, IsoNaive0108, IsoZ0109, IsoZ1201,
                 DateMonth13, DateWords}
PriorityTexts == {Prio08, Prio083, Prio085, Prio005, Prio10, PrioAbc, PrioInf, PrioNan}

\* the records the analyzers are fed: one field varies at a time
AnalyzerRecords ==
    {[loc |-> PyStr(LocA), lastmod |-> PyStr(m), changefreq |-> PyNone, priority |-> PyNone] :
        m \in LastmodTexts}
    \cup {[loc |-> PyStr(LocB), lastmod |-> PyNone, changefreq |-> PyStr(Daily), priority |-> PyStr(q)] :
        q \in PriorityTexts}
    \cup {[loc |-> PyStr(LocB), lastmod |-> PyStr(Date0105), changefreq |-> PyStr(Daily),
           priority |-> PyStr(Prio08)],
          [loc |-> PyStr(LocA), lastmod |-> PyNone, changefreq |-> PyNone, priority |-> PyNone]}

\* datetime.now(): 2024-01-10 12:00:00 or 2024-02-01 00:00:00, naive
Clocks ==
    {MkDatetime(2024, 1, 10, 12, 0, 0, FALSE, 0).val,
     MkDatetime(2024, 2, 1, 0, 0, 0, FALSE, 0).val}

Limits == {0, 1, 20}

Call_analyze_update_patterns ==
    /\ unit.fn = ""
    /\ unit' = [fn |-> "_analyze_update_patterns",
                ret |-> _analyze_update_patterns(details_in, clock)]
    /\ UNCHANGED <<sitemap_data, details_in, clock, request_vars>>

Call_get_recent_updates ==
    /\ unit.fn = ""
    /\ \E limit \in Limits :
          unit' = [fn |-> "_get_recent_updates", limit |-> limit,
                   ret |-> _get_recent_updates(details_in, limit)]
    /\ UNCHANGED <<sitemap_data, details_in, clock, request_vars>>

InitAnalyzer ==
    /\ sitemap_data = EmptyDict
    /\ details_in \in SeqsUpTo(AnalyzerRecords, MaxRecords)
    /\ clock \in Clocks
    /\ unit = NotCalled
    /\ RequestIdle

NextAnalyzer ==
    \/ Call_analyze_update_patterns
    \/ Call_get_recent_updates

SpecAnalyzer == InitAnalyzer /\ [][NextAnalyzer]_vars

(***************************************************************************)
(* Claims about the update-pattern analyzer (SpecAnalyzer)                 *)
(***************************************************************************)
\* the record's last-modified value parses under the date policy
Parseable(item) == Truthy(item.lastmod) /\ ParseLastmod(item.lastmod.s).exc = ""

\* whole days from the record's parsed last-modified instant to now
DaysBefore(item, now) ==
    (Instant(now) - Instant(ParseLastmod(item.lastmod.s).val)) \div 86400

AnalyzerReturned == unit.fn = "_analyze_update_patterns" /\ unit.ret.exc = ""

\* C8: recent_updates_7d (resp. 30d) is the number of records whose
\* last-modified value parses and lies within 7 (resp. 30) days of now, a
\* Z-suffixed timestamp included.
C8_RecencyCounts ==
    AnalyzerReturned =>
        /\ unit.ret.val.lastmod_analysis.recent_updates_7d =
              Cardinality({i \in 1..Len(details_in) :
                  Parseable(details_in[i]) /\ DaysBefore(details_in[i], clock) <= 7})
        /\ unit.ret.val.lastmod_analysis.recent_updates_30d =
              Cardinality({i \in 1..Len(details_in) :
                  Parseable(details_in[i]) /\ DaysBefore(details_in[i], clock) <= 30})

\* C9: total_with_lastmod is the number of records whose
\* last-modified value parses; an unparsable one does not contribute.
C9_TotalCountsParseable ==
    AnalyzerReturned =>
        unit.ret.val.lastmod_analysis.total_with_lastmod =
            Cardinality({i \in 1..Len(details_in) : Parseable(details_in[i])})

\* a call of _get_recent_updates has returned its feed
FeedReturned == unit.fn = "_get_recent_updates" /\ unit.ret.exc = ""

\* the instant of the parsed last-modified value of a feed entry
FeedInstant(entry) == Instant(ParseLastmod(entry.lastmod.s).val)

\* the input record a feed entry was made from
RecordOf(entry) ==
    [loc |-> entry.url, lastmod |-> entry.lastmod, changefreq |-> entry.changefreq,
     priority |-> entry.priority]

\* C19: the recent-updates feed is ordered by parsed last-modified date,
\* most recent first, and two records with equal parsed dates appear in the
\* relative order they have in the input sequence.
C19_FeedSortedStable ==
    FeedReturned =>
        \A i, j \in 1..Len(unit.ret.val) :
            i < j =>
                /\ FeedInstant(unit.ret.val[i]) >= FeedInstant(unit.ret.val[j])
                /\ FeedInstant(unit.ret.val[i]) = FeedInstant(unit.ret.val[j]) =>
                       \E p, q \in 1..Len(details_in) :
                           /\ p < q
                           /\ details_in[p] = RecordOf(unit.ret.val[i])
                           /\ details_in[q] = RecordOf(unit.ret.val[j])

\* C19 witness: the feed holds two different records with equal parsed dates
C19_Witness ==
    /\ FeedReturned
    /\ Len(unit.ret.val) = 2
    /\ unit.ret.val[1] # unit.ret.val[2]
    /\ FeedInstant(unit.ret.val[1]) = FeedInstant(unit.ret.val[2])

\* the positions of the input records with a parseable last-modified value
ParseablePositions == {p \in 1..Len(details_in) : Parseable(details_in[p])}

\* C20: for a limit >= 0, _get_recent_updates returns exactly the
\* min(limit, k) most recent of the k records that carry a parseable
\* last-modified value: no other record appears and no parseable record
\* more recent than a returned one is left out.
C20_MostRecentUpToLimit ==
    (unit.fn = "_get_recent_updates" /\ unit.limit >= 0) =>
        /\ unit.ret.exc = ""
        /\ Len(unit.ret.val) =
              (IF unit.limit < Cardinality(ParseablePositions) THEN unit.limit
               ELSE Cardinality(ParseablePositions))
        /\ \A i \in 1..Len(unit.ret.val) :
              \E p \in ParseablePositions : details_in[p] = RecordOf(unit.ret.val[i])
        /\ \A p \in ParseablePositions :
              \/ \E i \in 1..Len(unit.ret.val) : details_in[p] = RecordOf(unit.ret.val[i])
              \/ \A i \in 1..Len(unit.ret.val) :
                    FeedInstant(unit.ret.val[i])
                        >= Instant(ParseLastmod(details_in[p].lastmod.s).val)

\* the integer and fraction digits of the record's priority numeral
PriorityParts(item) == StrSplit(item.priority.s, ".")
FractionOf(parts) == IF Len(parts) = 2 THEN parts[2] ELSE <<>>

\* the numeral is digits[.digits] and denotes a number of [0, 1]
InUnitRange(parts) ==
    /\ Len(parts) \in {1, 2}
    /\ \A i \in 1..Len(parts) : AllDigits(parts[i])
    /\ \E i \in 1..Len(parts) : Len(parts[i]) > 0
    /\ \/ DigitsToInt(parts[1]) = 0
       \/ /\ DigitsToInt(parts[1]) = 1
          /\ \A i \in 1..Len(FractionOf(parts)) : FractionOf(parts)[i] = "0"

\* floor(10 * p) / 10 with one decimal: the numeral cut after its first
\* decimal digit
FloorTenth(parts) ==
    IntToChars(DigitsToInt(parts[1])) \o <<".">>
        \o <<IF FractionOf(parts) = <<>> THEN "0" ELSE FractionOf(parts)[1]>>

\* the positions of the records whose priority is a number of [0, 1], and of
\* those whose priority is a number at all
UnitPriorityPositions ==
    {i \in 1..Len(details_in) :
        Truthy(details_in[i].priority) /\ InUnitRange(PriorityParts(details_in[i]))}
NumberPriorityPositions ==
    {i \in 1..Len(details_in) :
        /\ Truthy(details_in[i].priority)
        /\ ParseFloat(details_in[i].priority.s).exc = ""
        /\ ParseFloat(details_in[i].priority.s).val.kind = "finite"}

\* the sum of the counts of a distribution
RECURSIVE SumStats(_)
SumStats(stats) ==
    IF DOMAIN stats = {} THEN 0
    ELSE LET x == CHOOSE y \in DOMAIN stats : TRUE IN
         stats[x] + SumStats([y \in DOMAIN stats \ {x} |-> stats[y]])

\* C21: every priority p of [0, 1] is counted in the bucket floor(10 * p) / 10
\* written with one decimal (0.83 and 0.85 in "0.8", 0.8 in "0.8", 1.0 in
\* "1.0"), and the bucket counts sum to the number of records whose priority
\* is a number.
C21_PriorityBuckets ==
    AnalyzerReturned =>
        /\ \A i \in UnitPriorityPositions :
              /\ FloorTenth(PriorityParts(details_in[i]))
                    \in DOMAIN unit.ret.val.priority_distribution
              /\ unit.ret.val.priority_distribution[FloorTenth(PriorityParts(details_in[i]))]
                    >= Cardinality({j \in UnitPriorityPositions :
                          FloorTenth(PriorityParts(details_in[j]))
                              = FloorTenth(PriorityParts(details_in[i]))})
        /\ SumStats(unit.ret.val.priority_distribution)
              = Cardinality(NumberPriorityPositions)

\* C21 witness: 0.83 and 0.85 were both counted in "0.8"
C21_Witness ==
    /\ AnalyzerReturned
    /\ \E i, j \in 1..Len(details_in) :
          /\ details_in[i].priority = PyStr(Prio083)
          /\ details_in[j].priority = PyStr(Prio085)
    /\ unit.ret.val.priority_distribution = [x \in {Prio08} |-> 2]

\* earliest and latest of a returned date_range are both unset, or both set
\* with earliest not after latest
RangeOrdered(range) ==
    /\ range.earliest.k = "None" <=> range.latest.k = "None"
    /\ range.earliest.k # "None" =>
          /\ DtLess(range.latest, range.earliest).exc = ""
          /\ ~DtLess(range.latest, range.earliest).val

\* the parsed last-modified instant of the record at position i
ParsedAt(i) == ParseLastmod(details_in[i].lastmod.s).val

\* the first record that contributed a parsed date: earliest and latest are
\* of its kind (naive or aware) for the rest of the call
FirstParsed == CHOOSE p \in ParseablePositions : \A q \in ParseablePositions : p <= q

\* the records that reach the recency step with an age in days against now
\* in lo..hi: their date compares with the date range and subtracts from now
AgedBetween(lo, hi, now) ==
    {i \in ParseablePositions :
        /\ DtLess(ParsedAt(i), ParsedAt(FirstParsed)).exc = ""
        /\ DtDays(now, ParsedAt(i)).exc = ""
        /\ DtDays(now, ParsedAt(i)).val >= lo
        /\ DtDays(now, ParsedAt(i)).val <= hi}

\* the counts of one result of _analyze_update_patterns
CountsOrdered(l) ==
    /\ l.recent_updates_7d <= l.recent_updates_30d
    /\ l.recent_updates_30d <= l.total_with_lastmod
    /\ l.total_with_lastmod <= Len(details_in)
    /\ l.recent_updates_30d - l.recent_updates_7d = Cardinality(AgedBetween(8, 30, clock))

\* C28: in every result of _analyze_update_patterns recent_updates_7d <=
\* recent_updates_30d <= total_with_lastmod <= the number of input records;
\* earliest and latest of date_range are both unset iff no record
\* contributed a parsed date, and otherwise earliest <= latest; both recency
\* counts are measured against the one value of now of the call, so that
\* they differ by the records that are 8 to 30 days old at that instant.
C28_CountsAndRange ==
    AnalyzerReturned =>
        /\ CountsOrdered(unit.ret.val.lastmod_analysis)
        /\ RangeOrdered(unit.ret.val.lastmod_analysis.date_range)
        /\ unit.ret.val.lastmod_analysis.date_range.earliest.k = "None"
              <=> ParseablePositions = {}

\* C28 witness: of two dated records one is 5 and one is 9 days old
C28_Witness ==
    /\ AnalyzerReturned
    /\ unit.ret.val.lastmod_analysis.recent_updates_7d = 1
    /\ unit.ret.val.lastmod_analysis.recent_updates_30d = 2
    /\ unit.ret.val.lastmod_analysis.date_range.earliest
          # unit.ret.val.lastmod_analysis.date_range.latest

(***************************************************************************)
(* The calculator (src/calculator.py): calculate_operation and the         *)
(* operation metadata of get_config_data                                   *)
(***************************************************************************)
\* the largest number of arguments of a call
MaxArgs == 3

\* the arguments: whole floats
ArgValues == {-2, 0, 1, 3}

\* the operations of get_config_data, lines 110-153: name, min_args and
\* max_args (None when there is no maximum)
Operations ==
    <<[name |-> "add", min_args |-> 2, max_args |-> PyNone],
      [name |-> "subtract", min_args |-> 2, max_args |-> PyNone],
      [name |-> "multiply", min_args |-> 2, max_args |-> PyNone],
      [name |-> "divide", min_args |-> 2, max_args |-> PyNone],
      [name |-> "power", min_args |-> 2, max_args |-> [k |-> "int", n |-> 2]],
      [name |-> "modulo", min_args |-> 2, max_args |-> [k |-> "int", n |-> 2]]>>

\* the methods a call may name: the listed ones and one that is not
Methods == {Operations[i].name : i \in 1..Len(Operations)} \cup {"sqrt"}

Abs(n) == IF n < 0 THEN 0 - n ELSE n

RECURSIVE Gcd(_, _)
Gcd(a, b) == IF b = 0 THEN a ELSE Gcd(b, a % b)

\* the number num / den in lowest terms with a positive denominator
Fraction(num, den) ==
    [num |-> (IF den < 0 THEN 0 - num ELSE num) \div Gcd(Abs(num), Abs(den)),
     den |-> Abs(den) \div Gcd(Abs(num), Abs(den))]

\* sum(args), line 44
RECURSIVE SumOf(_)
SumOf(args) == IF args = <<>> THEN 0 ELSE Head(args) + SumOf(Tail(args))

\* lines 52-54
RECURSIVE ProductOf(_)
ProductOf(args) == IF args = <<>> THEN 1 ELSE Head(args) * ProductOf(Tail(args))

\* lines 59-62: the loop over args[1:], stopped by a zero
RECURSIVE DivideBy(_, _)
DivideBy(quotient, args) ==
    IF args = <<>> THEN Ok(quotient)
    ELSE IF Head(args) = 0 THEN Raise("ValueError")
    ELSE DivideBy(Fraction(quotient.num, quotient.den * Head(args)), Tail(args))

\* base ** exponent for whole floats, line 66
Power(base, exponent) ==
    IF exponent = 0 THEN Ok(Fraction(1, 1))
    ELSE IF exponent > 0 THEN Ok(Fraction(base ^ exponent, 1))
    ELSE IF base = 0 THEN Raise("ZeroDivisionError")
    ELSE Ok(Fraction(1, base ^ (0 - exponent)))

\* a % b, line 72: the result has the sign of b
Modulo(a, b) == IF b > 0 THEN a % b ELSE 0 - ((0 - a) % (0 - b))

\* lines 43-74: result, or the exception raised
OperationResult(method, args) ==
    CASE method = "add" -> Ok(Fraction(SumOf(args), 1))
      [] method = "subtract" ->
            IF Len(args) < 2 THEN Raise("ValueError")
            ELSE Ok(Fraction(Head(args) - SumOf(Tail(args)), 1))
      [] method = "multiply" -> Ok(Fraction(ProductOf(args), 1))
      [] method = "divide" ->
            IF Len(args) < 2 THEN Raise("ValueError")
            ELSE DivideBy(Fraction(Head(args), 1), Tail(args))
      [] method = "power" ->
            IF Len(args) # 2 THEN Raise("ValueError") ELSE Power(args[1], args[2])
      [] method = "modulo" ->
            IF Len(args) # 2 THEN Raise("ValueError")
            ELSE IF args[2] = 0 THEN Raise("ValueError")
            ELSE Ok(Fraction(Modulo(args[1], args[2]), 1))
      [] OTHER -> Raise("ValueError")

\* lines 76-80: a whole float is returned as an int
calculate_operation(method, args) ==
    Then(OperationResult(method, args), LAMBDA number :
        Ok([k |-> IF number.den = 1 THEN "int" ELSE "float",
            num |-> number.num, den |-> number.den]))

Call_calculate_operation ==
    /\ unit.fn = ""
    /\ \E method \in Methods, args \in SeqsUpTo(ArgValues, MaxArgs) :
          unit' = [fn |-> "calculate_operation", method |-> method, args |-> args,
                   ret |-> calculate_operation(method, args)]
    /\ UNCHANGED <<sitemap_data, details_in, clock, request_vars>>

InitCalculator ==
    /\ sitemap_data = EmptyDict
    /\ details_in = <<>>
    /\ clock = PyNone
    /\ unit = NotCalled
    /\ RequestIdle

NextCalculator == Call_calculate_operation

SpecCalculator == InitCalculator /\ [][NextCalculator]_vars

(***************************************************************************)
(* Claims about the calculator (SpecCalculator)                            *)
(***************************************************************************)
\* the call named a listed operation, and its metadata
CalledListed ==
    /\ unit.fn = "calculate_operation"
    /\ \E i \in 1..Len(Operations) : Operations[i].name = unit.method
CalledOperation == Operations[CHOOSE i \in 1..Len(Operations) : Operations[i].name = unit.method]

\* the number of arguments lies inside [min_args, max_args]
WithinArgs(op, n) ==
    n >= op.min_args /\ (op.max_args.k = "None" \/ n <= op.max_args.n)

\* C27: the operation metadata agrees with calculate_operation: for every
\* listed operation a call with non-zero arguments whose number lies inside
\* [min_args, max_args] returns a result, and a call with fewer than min_args
\* arguments, or with more than max_args when max_args is set, raises
\* ValueError.
C27_MetadataConsistent ==
    CalledListed =>
        /\ (WithinArgs(CalledOperation, Len(unit.args))
               /\ \A i \in 1..Len(unit.args) : unit.args[i] # 0) => unit.ret.exc = ""
        /\ ~WithinArgs(CalledOperation, Len(unit.args)) => unit.ret.exc = "ValueError"

(***************************************************************************)
(* The tool entry points: one request, stepped at its awaits               *)
(***************************************************************************)
\* the labels of the error messages: "网络请求错误", "解析错误", "分析失败",
\* "验证失败"
NetworkErrorLabel == "wang luo qing qiu cuo wu"
ParseErrorLabel == "jie xi cuo wu"
AnalyzeFailedLabel == "fen xi shi bai"
ValidateFailedLabel == "yan zheng shi bai"

SourceUrl == "url"

\* {"success": False, "error": error_msg, "source_url": url}
Failure(label, exc) ==
    [success |-> FALSE, error |-> [label |-> label, exc |-> exc], source_url |-> SourceUrl]

\* what requests.get(url) and xmltodict.parse(response.text) give
FetchFails == [kind |-> "RequestException"]
XmlInvalid == [kind |-> "ExpatError"]
Fetched(tree) == [kind |-> "ok", data |-> tree, size |-> 1024]
\* the same with len(response.content) = size
FetchedOfSize(tree, size) == [kind |-> "ok", data |-> tree, size |-> size]

\* lines 325-341: the entry of the item's domain after the item.  The mean
\* of avg_priority is kept as the list of its operands; d and f are what
\* parsing the item's lastmod and priority gave.
DomainEntry(entry, item, d, f) ==
    LET newer == IF d.exc # "" THEN Raise(d.exc)
                 ELSE IF entry.latest_update.k = "None" THEN Ok(TRUE)
                 ELSE DtLess(entry.latest_update, d.val)
    IN  [domain |-> entry.domain,
         count |-> entry.count + 1,
         latest_update |-> IF newer.exc = "" /\ newer.val THEN d.val
                           ELSE entry.latest_update,
         changefreqs |-> IF Truthy(item.changefreq)
                         THEN entry.changefreqs \cup {item.changefreq.s}
                         ELSE entry.changefreqs,
         avg_priority |-> IF f.exc = "" THEN Append(entry.avg_priority, f.val)
                          ELSE entry.avg_priority]

\* lines 314-322: if domain not in domain_updates: a fresh entry, entries in
\* insertion order
DomainWith(updates, domain) ==
    IF \E i \in 1..Len(updates) : updates[i].domain = domain THEN updates
    ELSE Append(updates, [domain |-> domain, count |-> 0, latest_update |-> PyNone,
                          changefreqs |-> {}, avg_priority |-> <<>>])

DomainUpdate(with, domain, item) ==
    [i \in 1..Len(with) |->
        IF with[i].domain = domain
        THEN DomainEntry(with[i], item,
                         ParseLastmod(item.lastmod.s),
                         IF Truthy(item.priority) THEN ParseFloat(item.priority.s)
                         ELSE Raise("ValueError"))
        ELSE with[i]]

\* lines 311-312: parsed_url = urlparse(item['loc']); domain = parsed_url.netloc
DomainOf(updates, item, parsed_url) ==
    IF parsed_url.exc # "" THEN Raise(parsed_url.exc)
    ELSE Ok(DomainUpdate(DomainWith(updates, parsed_url.val.netloc),
                         parsed_url.val.netloc, item))

\* lines 309-341 for one item: the domain_updates entries after it, or the
\* exception urlparse raised
DomainStep(updates, item) ==
    IF ~Truthy(item.lastmod) THEN Ok(updates)
    ELSE DomainOf(updates, item, urlparse(item.loc))

RECURSIVE DomainLoop(_, _)
DomainLoop(items, updates) ==
    IF items = <<>> THEN Ok(updates)
    ELSE Then(DomainStep(updates, Head(items)),
              LAMBDA after : DomainLoop(Tail(items), after))

\* sorted(..., key=count, reverse=True): stable, greatest count first
RECURSIVE InsertByCount(_, _)
InsertByCount(sorted, x) ==
    IF sorted = <<>> THEN <<x>>
    ELSE IF Head(sorted).count >= x.count
         THEN <<Head(sorted)>> \o InsertByCount(Tail(sorted), x)
         ELSE <<x>> \o sorted

RECURSIVE SortByCount(_, _)
SortByCount(items, sorted) ==
    IF items = <<>> THEN sorted
    ELSE SortByCount(Tail(items), InsertByCount(sorted, Head(items)))

\* sum(1 for item in url_details if item.get(field))
CountWith(details, field) ==
    Cardinality({i \in 1..Len(details) : Truthy(details[i][field])})

\* counts[key] = counts.get(key, 0) + 1 on a dict kept as its items in
\* insertion order
CountKey(counts, key) ==
    IF \E i \in 1..Len(counts) : counts[i].key = key
    THEN [i \in 1..Len(counts) |->
             IF counts[i].key = key
             THEN [key |-> key, count |-> counts[i].count + 1]
             ELSE counts[i]]
    ELSE Append(counts, [key |-> key, count |-> 1])

\* lines 125-128: the path-prefix counts after one location
CountFirstPath(paths, path_parts) ==
    IF Len(path_parts) > 1
    THEN CountKey(paths, IF path_parts[2] # <<>> THEN <<"/">> \o path_parts[2]
                         ELSE <<"/">>)
    ELSE paths

\* lines 131-133: the extension counts after one location
CountExtension(extensions, path, dot_parts) ==
    IF HasChar(path, ".")
    THEN CountKey(extensions, StrLower(dot_parts[Len(dot_parts)]))
    ELSE extensions

\* lines 121-133 once the location is parsed: bytes.split('/') raises
\* TypeError for the bytes result of urlparse(None)
AnalyzeParsed(acc, parsed_url) ==
    IF parsed_url.exc # "" THEN Raise(parsed_url.exc)
    ELSE IF parsed_url.val.path.k # "str" THEN Raise("TypeError")
    ELSE Ok([domains |-> CountKey(acc.domains, parsed_url.val.netloc),
             paths |-> CountFirstPath(acc.paths, StrSplit(parsed_url.val.path.s, "/")),
             extensions |-> CountExtension(acc.extensions, parsed_url.val.path.s,
                                           StrSplit(parsed_url.val.path.s, "."))])

\* lines 118-133: for url_item in urls, stopped by an escaping exception
RECURSIVE AnalyzeUrls(_, _)
AnalyzeUrls(urls, acc) ==
    IF urls = <<>> THEN Ok(acc)
    ELSE Then(AnalyzeParsed(acc, urlparse(Head(urls))),
              LAMBDA after : AnalyzeUrls(Tail(urls), after))

\* lines 136-145: the analysis built from the three dicts
Analysis(parse_result, counts) ==
    [success |-> TRUE, source_url |-> SourceUrl,
     total_urls |-> Len(parse_result.urls),
     unique_domains |-> Len(counts.domains),
     domain_distribution |-> SliceTo(SortByCount(counts.domains, <<>>), 10),
     path_patterns |-> SliceTo(SortByCount(counts.paths, <<>>), 10),
     file_extensions |-> SortByCount(counts.extensions, <<>>),
     sitemap_type |-> parse_result.sitemap_type]

\* lines 245-254: the entry of the location's domain, created when missing
DomainInfoWith(info, domain) ==
    IF \E i \in 1..Len(info) : info[i].key = domain THEN info
    ELSE Append(info, [key |-> domain, count |-> 0, sample_urls |-> <<>>,
                       paths |-> {}, schemes |-> {}])

\* mutant of DomainInfoEntry: one more sample than the limit
DomainInfoEntry_UpToLimit(entry, url_item, parsed, path_parts, lim) ==
    [key |-> entry.key,
     count |-> entry.count + 1,
     schemes |-> entry.schemes \cup {parsed.scheme},
     paths |-> entry.paths \cup {IF Len(path_parts) > 1 THEN path_parts[2] ELSE <<"/">>},
     sample_urls |-> IF Len(entry.sample_urls) <= lim
                     THEN Append(entry.sample_urls, url_item)
                     ELSE entry.sample_urls]

\* lines 256-262 for the entry of the location's domain
DomainInfoEntry(entry, url_item, parsed, path_parts, lim) ==
    [key |-> entry.key,
     count |-> entry.count + 1,
     schemes |-> entry.schemes \cup {parsed.scheme},
     paths |-> entry.paths \cup {IF Len(path_parts) > 1 THEN path_parts[2] ELSE <<"/">>},
     sample_urls |-> IF Len(entry.sample_urls) < lim
                     THEN Append(entry.sample_urls, url_item)
                     ELSE entry.sample_urls]

\* lines 244-262 once the location is parsed: bytes.split('/') raises
\* TypeError for the bytes result of urlparse(None)
DomainInfoParsed(info, url_item, parsed_url, lim) ==
    IF parsed_url.exc # "" THEN Raise(parsed_url.exc)
    ELSE IF parsed_url.val.path.k # "str" THEN Raise("TypeError")
    ELSE Ok([i \in 1..Len(info) |->
                IF info[i].key = parsed_url.val.netloc
                THEN DomainInfoEntry(info[i], url_item, parsed_url.val,
                                     StrSplit(parsed_url.val.path.s, "/"), lim)
                ELSE info[i]])

DomainInfoStep(info, url_item, parsed_url, lim) ==
    DomainInfoParsed(IF parsed_url.exc = "" THEN DomainInfoWith(info, parsed_url.val.netloc)
                     ELSE info,
                     url_item, parsed_url, lim)

\* lines 243-262: for url_item in urls, stopped by an escaping exception
RECURSIVE DomainInfoLoop(_, _, _)
DomainInfoLoop(urls, info, lim) ==
    IF urls = <<>> THEN Ok(info)
    ELSE Then(DomainInfoStep(info, Head(urls), urlparse(Head(urls)), lim),
              LAMBDA after : DomainInfoLoop(Tail(urls), after, lim))

\* list(data["paths"])[:20]: a set is listed in no particular order, so any
\* 20 of more than 20 paths may be the ones kept
TruncatedPaths(paths) ==
    LET RECURSIVE Without(_, _)
        Without(kept, more) ==
            IF more = 0 THEN {kept}
            ELSE UNION {Without(kept \ {path}, more - 1) : path \in kept}
    IN  Without(paths, IF Cardinality(paths) <= 20 THEN 0 ELSE Cardinality(paths) - 20)

\* lines 265-267: the domain entries that may come out of the conversion
RECURSIVE DomainInfoOutcomes(_)
DomainInfoOutcomes(info) ==
    IF info = <<>> THEN {<<>>}
    ELSE {<<[Head(info) EXCEPT !.paths = kept]>> \o rest :
             kept \in TruncatedPaths(Head(info).paths),
             rest \in DomainInfoOutcomes(Tail(info))}

\* lines 269-275
DomainInfoResult(parse_result, domains) ==
    [success |-> TRUE, source_url |-> SourceUrl,
     total_urls |-> Len(parse_result.urls),
     total_domains |-> Len(domains),
     domains |-> SortByCount(domains, <<>>)]

\* url_item.startswith(('http://', 'https://'))
StartsWith(s, prefix) == Len(s) >= Len(prefix) /\ SubSeq(s, 1, Len(prefix)) = prefix
HasHttpScheme(s) ==
    \/ StartsWith(s, <<"h","t","t","p",":","/","/">>)
    \/ StartsWith(s, <<"h","t","t","p","s",":","/","/">>)

\* lines 187-190 for the i-th of the first 100 locations: the issues it adds,
\* or the exception len() or startswith raises for a location that is no str
UrlIssues(url_item, i) ==
    IF url_item.k = "None" THEN Raise("TypeError")
    ELSE IF url_item.k # "str" THEN Raise("AttributeError")
    ELSE Ok((IF Len(url_item.s) > 2048 THEN <<[kind |-> "url_length", index |-> i]>>
             ELSE <<>>)
            \o (IF ~HasHttpScheme(url_item.s) THEN <<[kind |-> "url_scheme", index |-> i]>>
                ELSE <<>>))

\* lines 185-190: for i, url_item in enumerate(urls[:100]), over the
\* locations lo..hi of the slice, walked by halves as in ForEachEntry
RECURSIVE InvalidUrls(_, _, _)
InvalidUrls(urls, lo, hi) ==
    IF lo > hi THEN Ok(<<>>)
    ELSE IF lo = hi THEN UrlIssues(urls[lo], lo)
    ELSE Then(InvalidUrls(urls, lo, (lo + hi) \div 2), LAMBDA first :
             Then(InvalidUrls(urls, (lo + hi) \div 2 + 1, hi), LAMBDA rest :
                 Ok(first \o rest)))

\* mutant of ValidationIssues: the limit itself is already too many
ValidationIssues_AtLimit(urls, content_size, invalid_urls, sitemap_type) ==
    (IF Len(urls) >= 50000 THEN <<[kind |-> "url_count", index |-> 0]>> ELSE <<>>)
    \o (IF content_size > 50 * 1024 * 1024 THEN <<[kind |-> "file_size", index |-> 0]>>
        ELSE <<>>)
    \o SliceTo(invalid_urls, 5)
    \o (IF sitemap_type = "unknown" THEN <<[kind |-> "format", index |-> 0]>> ELSE <<>>)

\* lines 170-199: validation_issues, in the order they are appended
ValidationIssues(urls, content_size, invalid_urls, sitemap_type) ==
    (IF Len(urls) > 50000 THEN <<[kind |-> "url_count", index |-> 0]>> ELSE <<>>)
    \o (IF content_size > 50 * 1024 * 1024 THEN <<[kind |-> "file_size", index |-> 0]>>
        ELSE <<>>)
    \o SliceTo(invalid_urls, 5)
    \o (IF sitemap_type = "unknown" THEN <<[kind |-> "format", index |-> 0]>> ELSE <<>>)

\* mutant of ValidationWarnings: if in place of elif
ValidationWarnings_AlsoOverLimit(content_size) ==
    IF content_size > 10 * 1024 * 1024
    THEN <<[kind |-> "file_large", index |-> 0]>>
    ELSE <<>>

\* lines 179-182
ValidationWarnings(content_size) ==
    IF content_size <= 50 * 1024 * 1024 /\ content_size > 10 * 1024 * 1024
    THEN <<[kind |-> "file_large", index |-> 0]>>
    ELSE <<>>

\* mutant of ValidationResult: a warning makes the sitemap invalid
ValidationResult_WarningsCount(urls, content_size, issues, sitemap_type) ==
    [success |-> TRUE, source_url |-> SourceUrl,
     is_valid |-> Len(issues) = 0 /\ ValidationWarnings(content_size) = <<>>,
     total_urls |-> Len(urls),
     file_size_mb |-> [num |-> content_size, den |-> 1024 * 1024],
     sitemap_type |-> sitemap_type,
     validation_issues |-> issues,
     warnings |-> ValidationWarnings(content_size)]

\* lines 201-212; file_size_mb is kept as the quotient it is computed from
ValidationResult(urls, content_size, issues, sitemap_type) ==
    [success |-> TRUE, source_url |-> SourceUrl,
     is_valid |-> Len(issues) = 0,
     total_urls |-> Len(urls),
     file_size_mb |-> [num |-> content_size, den |-> 1024 * 1024],
     sitemap_type |-> sitemap_type,
     validation_issues |-> issues,
     warnings |-> ValidationWarnings(content_size)]

\* mutant of ValidateFetched: every location is checked
ValidateFetched_AllLocations(resp, urls) ==
    Then(urls, LAMBDA found :
        Then(InvalidUrls(found, 1, Len(found)),
             LAMBDA invalid_urls :
            Ok(ValidationResult(found, resp.size,
                   ValidationIssues(found, resp.size, invalid_urls,
                                    _detect_sitemap_type(resp.data)),
                   _detect_sitemap_type(resp.data)))))

\* lines 163-220 from the fetched response on: the result, or the exception
\* the handler at line 217 catches
ValidateFetched(resp, urls) ==
    Then(urls, LAMBDA found :
        Then(InvalidUrls(found, 1, IF Len(found) < 100 THEN Len(found) ELSE 100),
             LAMBDA invalid_urls :
            Ok(ValidationResult(found, resp.size,
                   ValidationIssues(found, resp.size, invalid_urls,
                                    _detect_sitemap_type(resp.data)),
                   _detect_sitemap_type(resp.data)))))

\* an exception that leaves the entry point: the caller gets no result
Propagated(exc) == [raised |-> exc]

harness_vars == <<sitemap_data, details_in, unit>>
loop_vars == <<current, frames>>

\* the except clauses: ctx.error(error_msg) and the failure result.  The call
\* makes the coroutine of the error event; no await runs it.
Fail(label, exc) ==
    /\ error_calls' = Append(error_calls, [label |-> label, exc |-> exc,
                                            awaited |-> FALSE])
    /\ result' = Failure(label, exc)
    /\ pc' = "done"

\* mutant of IssueFetch: a failed fetch is attempted a second time
IssueFetch_Retrying ==
    fetches' = fetches + (IF response.kind = "RequestException" THEN 2 ELSE 1)

\* requests.get(url, timeout=30): one request on the wire
IssueFetch == fetches' = fetches + 1

\* the entry points that start with await _parse_sitemap_internal(url, ctx)
InternalParseTools == {"parse_sitemap", "analyze_sitemap", "extract_domain_info"}

\* the values of the limit argument of extract_domain_info: a negative one
\* and the default
DomainLimits == {-1, 10}

\* lines 84-85, 103-106, 234-236 and 40: the entry point is invoked, calls
\* _parse_sitemap_internal, which makes the first progress report
Parse_Start ==
    /\ pc = "idle"
    /\ \E t \in InternalParseTools :
          /\ tool' = t
          /\ limit_arg' \in (IF t = "extract_domain_info" THEN DomainLimits ELSE {0})
    /\ invocations' = invocations + 1
    /\ progress' = <<0>>
    /\ pc' = "fetch"
    /\ UNCHANGED <<harness_vars, clock, loop_vars, response, parsed_data, url_details,
                   update_analysis, error_calls, result, fetches>>

\* lines 41-44: requests.get, raise_for_status
Parse_Fetch ==
    /\ tool \in InternalParseTools /\ pc = "fetch"
    /\ IssueFetch
    /\ IF response.kind = "RequestException"
       THEN Fail(NetworkErrorLabel, "RequestException") /\ UNCHANGED progress
       ELSE progress' = Append(progress, 1) /\ pc' = "parse"
                /\ UNCHANGED <<error_calls, result>>
    /\ UNCHANGED <<harness_vars, clock, loop_vars, tool, response, parsed_data,
                   url_details, update_analysis, limit_arg, invocations>>

\* lines 46-48: xmltodict.parse
Parse_Xml ==
    /\ tool \in InternalParseTools /\ pc = "parse"
    /\ IF response.kind = "ExpatError"
       THEN Fail(ParseErrorLabel, "ExpatError") /\ UNCHANGED <<progress, parsed_data>>
       ELSE parsed_data' = response.data /\ progress' = Append(progress, 2)
                /\ pc' = "extract" /\ UNCHANGED <<error_calls, result>>
    /\ UNCHANGED <<harness_vars, clock, loop_vars, tool, response,
                   url_details, update_analysis, limit_arg, invocations, fetches>>

\* lines 50-52 and 68-71 once _extract_urls has returned or raised
Extracted(urls) ==
    IF urls.exc # ""
    THEN Fail(ParseErrorLabel, urls.exc) /\ UNCHANGED <<progress, url_details>>
    ELSE url_details' = urls.val /\ progress' = Append(progress, 3)
             /\ pc' = "return" /\ UNCHANGED <<error_calls, result>>

\* lines 50-52: urls = _extract_urls(parsed_data)
Parse_Extract ==
    /\ tool \in InternalParseTools /\ pc = "extract"
    /\ Extracted(_extract_urls(parsed_data))
    /\ UNCHANGED <<harness_vars, clock, loop_vars, tool, response, parsed_data,
                   update_analysis, limit_arg, invocations, fetches>>

\* lines 54-60: the result of _parse_sitemap_internal
ParseResult(tree, urls) ==
    [success |-> TRUE, source_url |-> SourceUrl,
     total_urls |-> Len(urls), urls |-> urls,
     sitemap_type |-> _detect_sitemap_type(tree)]

\* lines 54-62 and 87-90: the parse result, returned to the caller by
\* parse_sitemap and kept as parse_result by the other two entry points
Parse_Return ==
    /\ tool \in InternalParseTools /\ pc = "return"
    /\ result' = ParseResult(parsed_data, url_details)
    /\ pc' = IF tool = "parse_sitemap" THEN "done" ELSE "derive"
    /\ UNCHANGED <<harness_vars, clock, loop_vars, tool, response, parsed_data,
                   url_details, update_analysis, progress, error_calls, limit_arg,
                   invocations, fetches>>

\* mutant of AnalysisOf: domains, paths and extensions are module-level
\* dicts, which keep the counts of the requests served before
AnalysisOf_KeptCounts(parse_result, counts) ==
    IF counts.exc # "" THEN Propagated(counts.exc)
    ELSE IF invocations > 1
    THEN Analysis(parse_result, AnalyzeUrls(parse_result.urls, counts.val).val)
    ELSE Analysis(parse_result, counts.val)

\* lines 111-148 after the parse result: what the caller of analyze_sitemap
\* gets
AnalysisOf(parse_result, counts) ==
    IF counts.exc # "" THEN Propagated(counts.exc)
    ELSE Analysis(parse_result, counts.val)

\* analyze_sitemap, lines 111-148: no handler surrounds the loop
Analyze_Derive ==
    /\ tool = "analyze_sitemap" /\ pc = "derive"
    /\ result' = AnalysisOf(result, AnalyzeUrls(result.urls,
                      [domains |-> <<>>, paths |-> <<>>, extensions |-> <<>>]))
    /\ pc' = "done"
    /\ UNCHANGED <<harness_vars, clock, loop_vars, tool, response, parsed_data,
                   url_details, update_analysis, progress, error_calls, limit_arg,
                   invocations, fetches>>

\* lines 240-278 after the parse result: what the caller of
\* extract_domain_info may get
DomainInfoOf(parse_result, info) ==
    IF info.exc # "" THEN {Propagated(info.exc)}
    ELSE {DomainInfoResult(parse_result, domains) : domains \in DomainInfoOutcomes(info.val)}

\* extract_domain_info, lines 240-278: no handler surrounds the loop
Domains_Derive ==
    /\ tool = "extract_domain_info" /\ pc = "derive"
    /\ result' \in DomainInfoOf(result, DomainInfoLoop(result.urls, <<>>, limit_arg))
    /\ pc' = "done"
    /\ UNCHANGED <<harness_vars, clock, loop_vars, tool, response, parsed_data,
                   url_details, update_analysis, progress, error_calls, limit_arg,
                   invocations, fetches>>

\* lines 163-220: the body of the try statement, from requests.get on
ValidateBody(resp) ==
    IF resp.kind # "ok" THEN Raise(resp.kind)
    ELSE ValidateFetched(resp, _extract_urls(resp.data))

\* the thresholds of lines 174, 186, 187 and 193
UrlLimit == 50000
CheckedUrls == 100
UrlLengthLimit == 2048
ReportedIssues == 5
MiB == 1024 * 1024

\* a location of UrlLengthLimit + 1 characters that starts with prefix
LongLoc(prefix) ==
    [i \in 1..(UrlLengthLimit + 1) |-> IF i <= Len(prefix) THEN prefix[i] ELSE "x"]

\* locations that validate_sitemap objects to: "a/b", "https://a.com/xx..."
\* and "a/bxx..."
BadLocation(name) ==
    CASE name = "relative" -> PyStr(<<"a","/","b">>)
      [] name = "long" -> PyStr(LongLoc(LocA))
      [] name = "long relative" -> PyStr(LongLoc(<<"a","/","b">>))

\* a payload of `size` bytes given by what it holds: a <urlset> of n <url>
\* elements whose <loc> is "https://a.com/x", but for the positions of bad,
\* where it is the location named loc
UrlsetPayload(n, bad, loc, size) ==
    [kind |-> "urlset", n |-> n, bad |-> bad, loc |-> loc, size |-> size]

\* what requests.get and xmltodict.parse give for a payload: one <url>
\* element parses to a mapping, several to a list of mappings
Received(resp) ==
    IF resp.kind # "urlset" THEN resp
    ELSE [kind |-> "ok", size |-> resp.size,
          data |-> PyDict([key \in {"urlset"} |-> PyDict([k2 \in {"url"} |->
              IF resp.n = 1
              THEN MkDict([loc |-> IF 1 \in resp.bad THEN BadLocation(resp.loc)
                                  ELSE PyStr(LocA)])
              ELSE PyList([i \in 1..resp.n |->
                      MkDict([loc |-> IF i \in resp.bad THEN BadLocation(resp.loc)
                                      ELSE PyStr(LocA)])])])])]

\* lines 213-220: the result is returned, or the handler reports the failure
Validated(outcome) ==
    IF outcome.exc # "" THEN Fail(ValidateFailedLabel, outcome.exc)
    ELSE result' = outcome.val /\ pc' = "done" /\ UNCHANGED error_calls

\* validate_sitemap, lines 161-220: the whole body, which never suspends
Validate ==
    /\ pc = "idle"
    /\ tool' = "validate_sitemap"
    /\ invocations' = invocations + 1
    /\ IssueFetch
    /\ Validated(ValidateBody(Received(response)))
    /\ UNCHANGED <<harness_vars, clock, loop_vars, response, parsed_data, url_details,
                   update_analysis, progress, limit_arg>>

\* analyze_update_patterns, lines 291-294
Updates_Start ==
    /\ pc = "idle"
    /\ tool' = "analyze_update_patterns"
    /\ invocations' = invocations + 1
    /\ progress' = <<0>>
    /\ pc' = "fetch"
    /\ UNCHANGED <<harness_vars, clock, loop_vars, response, parsed_data, url_details,
                   update_analysis, error_calls, result, limit_arg, fetches>>

\* lines 295-301: what requests.get, xmltodict.parse and
\* _extract_url_details give, or the exception one of them raises
UpdatesFetched(resp) ==
    IF resp.kind # "ok" THEN Raise(resp.kind) ELSE _extract_url_details(resp.data)

\* lines 297-301 and 372-375
UpdatesDetailed(details) ==
    IF details.exc # ""
    THEN Fail(AnalyzeFailedLabel, details.exc)
             /\ UNCHANGED <<progress, parsed_data, url_details>>
    ELSE /\ parsed_data' = response.data
         /\ url_details' = details.val
         /\ progress' = Append(progress, 1)
         /\ pc' = "analyze"
         /\ UNCHANGED <<error_calls, result>>

\* lines 295-301: fetch, parse, normalize
Updates_Fetch ==
    /\ tool = "analyze_update_patterns" /\ pc = "fetch"
    /\ IssueFetch
    /\ UpdatesDetailed(UpdatesFetched(response))
    /\ UNCHANGED <<harness_vars, clock, loop_vars, tool, response, update_analysis,
                   limit_arg, invocations>>

\* lines 303-304 and 372-375
UpdatesAnalyzed(analysis) ==
    IF analysis.exc # ""
    THEN Fail(AnalyzeFailedLabel, analysis.exc) /\ UNCHANGED <<progress, update_analysis>>
    ELSE update_analysis' = analysis.val /\ progress' = Append(progress, 2)
             /\ pc' = "recent" /\ UNCHANGED <<error_calls, result>>

\* lines 302-304
Updates_Analyze ==
    /\ tool = "analyze_update_patterns" /\ pc = "analyze"
    /\ UpdatesAnalyzed(_analyze_update_patterns(url_details, clock))
    /\ UNCHANGED <<harness_vars, clock, loop_vars, tool, response, parsed_data,
                   url_details, limit_arg, invocations, fetches>>

\* lines 305-370: the recent updates, the per-domain summary, the last
\* progress report and the result
\* lines 353-367: the result of analyze_update_patterns
UpdatesResult(tree, details, analysis, recent_updates, domain_updates, now) ==
    [success |-> TRUE, source_url |-> SourceUrl, analyzed_at |-> now,
     sitemap_type |-> _detect_sitemap_type(tree),
     total_urls |-> Len(details),
     metadata_coverage |->
        [urls_with_lastmod |-> CountWith(details, "lastmod"),
         urls_with_changefreq |-> CountWith(details, "changefreq"),
         urls_with_priority |-> CountWith(details, "priority")],
     update_patterns |-> analysis,
     recent_updates |-> SliceTo(recent_updates, 20),
     domain_update_summary |-> SliceTo(SortByCount(domain_updates, <<>>), 10)]

\* lines 305-370 and 372-375 once the two loops have returned or raised
UpdatesFinished(recent_updates, domain_updates) ==
    IF recent_updates.exc # ""
    THEN Fail(AnalyzeFailedLabel, recent_updates.exc) /\ UNCHANGED progress
    ELSE IF domain_updates.exc # ""
    THEN Fail(AnalyzeFailedLabel, domain_updates.exc) /\ UNCHANGED progress
    ELSE /\ progress' = Append(progress, 3)
         /\ result' = UpdatesResult(parsed_data, url_details, update_analysis,
                                    recent_updates.val, domain_updates.val, clock)
         /\ pc' = "done"
         /\ UNCHANGED error_calls

Updates_Finish ==
    /\ tool = "analyze_update_patterns" /\ pc = "recent"
    /\ UpdatesFinished(_get_recent_updates(url_details, 50), DomainLoop(url_details, <<>>))
    /\ UNCHANGED <<harness_vars, clock, loop_vars, tool, response, parsed_data,
                   url_details, update_analysis, limit_arg, invocations, fetches>>

\* lines 550-562: the summary get_sitemap_data serializes, or the exception
\* its handler turns into {"error": ...}
SitemapSummary(resp, urls) ==
    IF urls.exc # "" THEN [error |-> urls.exc]
    ELSE [url |-> SourceUrl,
          total_urls |-> Len(urls.val),
          sitemap_type |-> _detect_sitemap_type(resp.data),
          first_10_urls |-> SliceTo(urls.val, 10)]

\* the read-only lookup data://sitemap/{url}, lines 546-566
Resource_Data ==
    /\ pc = "idle"
    /\ tool' = "get_sitemap_data"
    /\ invocations' = invocations + 1
    /\ IssueFetch
    /\ result' = IF response.kind # "ok" THEN [error |-> response.kind]
                 ELSE SitemapSummary(response, _extract_urls(response.data))
    /\ pc' = "done"
    /\ UNCHANGED <<harness_vars, clock, loop_vars, response, parsed_data, url_details,
                   update_analysis, progress, error_calls, limit_arg>>

\* lines 574-596: the update records get_sitemap_updates serializes
UpdateRecords(resp, details, analysis, recent, now) ==
    IF analysis.exc # "" THEN [error |-> analysis.exc]
    ELSE IF recent.exc # "" THEN [error |-> recent.exc]
    ELSE [url |-> SourceUrl, analyzed_at |-> now,
          sitemap_type |-> _detect_sitemap_type(resp.data),
          total_urls |-> Len(details),
          urls_with_lastmod |-> CountWith(details, "lastmod"),
          urls_with_changefreq |-> CountWith(details, "changefreq"),
          urls_with_priority |-> CountWith(details, "priority"),
          update_patterns |-> analysis.val,
          recent_updates |-> recent.val,
          sample_urls_with_metadata |-> SliceTo(details, 10)]

UpdateRecordsOf(resp, details, now) ==
    IF details.exc # "" THEN [error |-> details.exc]
    ELSE UpdateRecords(resp, details.val, _analyze_update_patterns(details.val, now),
                       _get_recent_updates(details.val, 20), now)

\* the read-only lookup data://sitemap/updates/{url}, lines 570-599
Resource_Updates ==
    /\ pc = "idle"
    /\ tool' = "get_sitemap_updates"
    /\ invocations' = invocations + 1
    /\ IssueFetch
    /\ result' = IF response.kind # "ok" THEN [error |-> response.kind]
                 ELSE UpdateRecordsOf(response, _extract_url_details(response.data), clock)
    /\ pc' = "done"
    /\ UNCHANGED <<harness_vars, clock, loop_vars, response, parsed_data, url_details,
                   update_analysis, progress, error_calls, limit_arg>>

\* what xmltodict gives for the <url> elements of the fetched sitemaps
RequestEntries ==
    {MkDict([loc |-> r.loc,
             lastmod |-> IF r.lastmod = PyNone THEN Absent ELSE r.lastmod,
             changefreq |-> IF r.changefreq = PyNone THEN Absent ELSE r.changefreq,
             priority |-> IF r.priority = PyNone THEN Absent ELSE r.priority]) :
        r \in AnalyzerRecords}
    \cup {MkDict([lastmod |-> PyStr(Date0105), priority |-> PyStr(Prio08)])}

\* the parsed trees of the fetched payloads
RequestTrees ==
    {PyDict([key \in {"urlset"} |-> PyDict([k2 \in {"url"} |-> PyList(xs)])]) :
        xs \in SeqsUpTo(RequestEntries, MaxRecords)}
    \cup {PyDict([key \in {"urlset"} |-> PyDict([k2 \in {"url"} |-> e])]) :
        e \in RequestEntries}
    \cup {PyDict([key \in {"sitemapindex"} |-> PyDict([k2 \in {"sitemap"} |-> e])]) :
        e \in RequestEntries}
    \cup {PyDict([key \in {"urlset"} |-> PyNone]),
          PyDict([key \in {"urlset"} |-> PyDict([k2 \in {"url"} |-> PyList(<<PyNone>>)])]),
          PyDict([key \in {"urlset"} |-> EmptyDict]),
          PyDict([key \in {"foo"} |-> EmptyDict]),
          PyDict([key \in {"foo"} |-> PyNone]),
          PyDict([key \in {"rss"} |-> PyDict([k2 \in {"url"} |->
                                        MkDict([loc |-> PyStr(LocA)])])])}

\* "https://a.com", "http://[bad", "a/b" and "https://b.org/blog/p.HTML"
LocRoot == <<"h","t","t","p","s",":","/","/","a",".","c","o","m">>
LocBad == <<"h","t","t","p",":","/","/","[","b","a","d">>
LocRel == <<"a","/","b">>
LocHtml ==
    <<"h","t","t","p","s",":","/","/","b",".","o","r","g","/","b","l","o","g","/",
      "p",".","H","T","M","L">>

\* what xmltodict gives for <loc>: its text, or None for an empty element
RequestLocations ==
    {PyStr(LocA), PyStr(LocRoot), PyStr(LocBad), PyStr(LocRel), PyStr(LocHtml), PyNone}

\* a <urlset> of <url> elements that hold a <loc> only: one element parses to
\* a mapping, several to a list of mappings
UrlsetOf(locs) ==
    PyDict([key \in {"urlset"} |-> PyDict([k2 \in {"url"} |->
        IF Len(locs) = 1 THEN MkDict([loc |-> locs[1]])
        ELSE PyList([i \in 1..Len(locs) |-> MkDict([loc |-> locs[i]])])])])

LocationTrees ==
    {UrlsetOf(locs) : locs \in SeqsUpTo(RequestLocations, MaxRecords) \ {<<>>}}

\* the number of distinct hosts, path prefixes and extensions of the large
\* sitemap
MaxKinds == 12

\* "http://c.co/c/f.c" for the i-th letter c
KindLoc(i) ==
    <<"h","t","t","p",":","/","/", LowerChars[i], ".","c","o","/", LowerChars[i],
      "/","f",".", LowerChars[i]>>

\* a sitemap of MaxKinds locations that differ in host, path prefix and
\* extension, followed by the last one and the first one again
ManyKindsTree ==
    UrlsetOf([i \in 1..(MaxKinds + 2) |->
                 PyStr(KindLoc(IF i <= MaxKinds THEN i
                               ELSE IF i = MaxKinds + 1 THEN MaxKinds ELSE 1))])

Responses ==
    {FetchFails, XmlInvalid}
    \cup {Fetched(t) : t \in RequestTrees \cup LocationTrees \cup {ManyKindsTree}}

Init ==
    /\ sitemap_data = EmptyDict
    /\ details_in = <<>>
    /\ clock \in Clocks
    /\ unit = NotCalled
    /\ tool = ""
    /\ pc = "idle"
    /\ response \in Responses
    /\ parsed_data = PyNone
    /\ url_details = <<>>
    /\ update_analysis = PyNone
    /\ progress = <<>>
    /\ error_calls = <<>>
    /\ result = PyNone
    /\ limit_arg = 0
    /\ invocations = 0
    /\ fetches = 0
    /\ current = 1
    /\ frames = <<>>

Next ==
    \/ Parse_Start
    \/ Parse_Fetch
    \/ Parse_Xml
    \/ Parse_Extract
    \/ Parse_Return
    \/ Analyze_Derive
    \/ Domains_Derive
    \/ Validate
    \/ Resource_Data
    \/ Resource_Updates
    \/ Updates_Start
    \/ Updates_Fetch
    \/ Updates_Analyze
    \/ Updates_Finish

Spec == Init /\ [][Next]_vars

(***************************************************************************)
(* A server that handles one request after the other                       *)
(***************************************************************************)
\* the number of requests of a session
MaxInvocations == 3

\* what the fetches of a session give: a failed fetch, invalid XML, a
\* sitemap of one location and one with a location urlparse rejects
SessionResponses ==
    {FetchFails, XmlInvalid,
     Fetched(UrlsetOf(<<PyStr(LocA)>>)),
     Fetched(UrlsetOf(<<PyStr(LocHtml), PyStr(LocBad)>>))}

\* mcp.run(): the request is answered and the server takes the next one,
\* for the same URL; no state of the finished request is kept
Serve_Next ==
    /\ pc = "done"
    /\ invocations < MaxInvocations
    /\ response' \in SessionResponses
    /\ tool' = ""
    /\ pc' = "idle"
    /\ parsed_data' = PyNone
    /\ url_details' = <<>>
    /\ update_analysis' = PyNone
    /\ progress' = <<>>
    /\ error_calls' = <<>>
    /\ result' = PyNone
    /\ limit_arg' = 0
    /\ UNCHANGED <<harness_vars, clock, loop_vars, invocations, fetches>>

InitSession ==
    /\ sitemap_data = EmptyDict
    /\ details_in = <<>>
    /\ clock \in Clocks
    /\ unit = NotCalled
    /\ tool = ""
    /\ pc = "idle"
    /\ response \in SessionResponses
    /\ parsed_data = PyNone
    /\ url_details = <<>>
    /\ update_analysis = PyNone
    /\ progress = <<>>
    /\ error_calls = <<>>
    /\ result = PyNone
    /\ limit_arg = 0
    /\ invocations = 0
    /\ fetches = 0
    /\ current = 1
    /\ frames = <<>>

NextSession == Next \/ Serve_Next

SpecSession == InitSession /\ [][NextSession]_vars

(***************************************************************************)
(* A server that handles several requests at once: the coroutines of the   *)
(* entry points run on one event loop and give way to one another at their *)
(* await expressions only                                                  *)
(***************************************************************************)
\* the number of requests in progress
MaxRequests == 2

\* a sitemap of one dated record with a priority
DatedTree ==
    PyDict([key \in {"urlset"} |-> PyDict([k2 \in {"url"} |->
        MkDict([loc |-> PyStr(LocB), lastmod |-> PyStr(Date0105),
                priority |-> PyStr(Prio08)])])])

\* what the fetches of concurrent requests give
ConcurrentResponses ==
    {FetchFails,
     Fetched(UrlsetOf(<<PyStr(LocHtml), PyStr(LocRoot)>>)),
     Fetched(DatedTree)}

\* the arguments and local variables of the coroutine of the running
\* request, with the context it was given
CurrentFrame ==
    [tool |-> tool, pc |-> pc, response |-> response, parsed_data |-> parsed_data,
     url_details |-> url_details, update_analysis |-> update_analysis,
     progress |-> progress, error_calls |-> error_calls, result |-> result,
     limit_arg |-> limit_arg]

\* the frame of a request that has not started
NewFrame(resp) ==
    [tool |-> "", pc |-> "idle", response |-> resp, parsed_data |-> PyNone,
     url_details |-> <<>>, update_analysis |-> PyNone, progress |-> <<>>,
     error_calls |-> <<>>, result |-> PyNone, limit_arg |-> 0]

\* the place in frames of the request that is running
Running == [NewFrame(PyNone) EXCEPT !.pc = "running"]

\* the place in frames of a request whose coroutine has returned: its frame
\* is gone
Returned == [NewFrame(PyNone) EXCEPT !.pc = "returned"]

\* mutant of Resume: the record sequence is one object that all requests
\* share
Resume_SharedRecords(frame) ==
    /\ tool' = frame.tool
    /\ pc' = frame.pc
    /\ response' = frame.response
    /\ parsed_data' = frame.parsed_data
    /\ url_details' = url_details
    /\ update_analysis' = frame.update_analysis
    /\ progress' = frame.progress
    /\ error_calls' = frame.error_calls
    /\ result' = frame.result
    /\ limit_arg' = frame.limit_arg

\* the event loop resumes a coroutine: its arguments and local variables
\* are those it was suspended with
Resume(frame) ==
    /\ tool' = frame.tool
    /\ pc' = frame.pc
    /\ response' = frame.response
    /\ parsed_data' = frame.parsed_data
    /\ url_details' = frame.url_details
    /\ update_analysis' = frame.update_analysis
    /\ progress' = frame.progress
    /\ error_calls' = frame.error_calls
    /\ result' = frame.result
    /\ limit_arg' = frame.limit_arg

\* where a request gives way: at each await ctx.report_progress (lines 40,
\* 44, 48, 52, 294, 301, 304) and once it has returned.  The await of line
\* 351 lies inside Updates_Finish, whose remaining statements read local
\* variables only.  A coroutine runs from its start to its first await, so
\* the first request is the first to start.
AwaitPoints == {"fetch", "parse", "extract", "return", "analyze", "recent", "done"}

\* the running request is suspended, or has returned, and the event loop
\* starts or resumes another one
Switch ==
    /\ pc \in AwaitPoints
    /\ \E j \in DOMAIN frames \ {current} :
          /\ frames[j] # Returned
          /\ frames' = [frames EXCEPT ![current] = IF pc = "done" THEN Returned
                                                   ELSE CurrentFrame,
                                      ![j] = Running]
          /\ current' = j
          /\ Resume(frames[j])
    /\ UNCHANGED <<harness_vars, clock, invocations, fetches>>

InitConcurrent ==
    /\ sitemap_data = EmptyDict
    /\ details_in = <<>>
    /\ clock = MkDatetime(2024, 1, 10, 12, 0, 0, FALSE, 0).val
    /\ unit = NotCalled
    /\ tool = ""
    /\ pc = "idle"
    /\ response \in ConcurrentResponses
    /\ parsed_data = PyNone
    /\ url_details = <<>>
    /\ update_analysis = PyNone
    /\ progress = <<>>
    /\ error_calls = <<>>
    /\ result = PyNone
    /\ limit_arg = 0
    /\ invocations = 0
    /\ fetches = 0
    /\ current = 1
    /\ frames \in {f \in [1..MaxRequests -> {Running} \cup {NewFrame(r) : r \in ConcurrentResponses}] :
                      \A i \in 1..MaxRequests : (f[i] = Running) <=> (i = 1)}

NextConcurrent == Next \/ Switch

SpecConcurrent == InitConcurrent /\ [][NextConcurrent]_vars

(***************************************************************************)
(* A client that asks again: the payload behind the URL does not change    *)
(* between its requests, and the client keeps the answers it got           *)
(***************************************************************************)
\* the number of times the client asks again
MaxRepeats == 1

\* what the fetches give, the same at every request of a client
RepeatResponses ==
    {FetchFails,
     Fetched(ManyKindsTree),
     Fetched(UrlsetOf(<<PyStr(LocHtml), PyStr(LocRoot), PyStr(LocHtml)>>)),
     Fetched(UrlsetOf(<<PyStr(LocA), PyStr(LocBad)>>)),
     Fetched(DatedTree),
     Fetched(PyDict([key \in {"foo"} |-> EmptyDict]))}

\* mcp.run(): the request is answered and the server takes the next one of
\* the same client, which fetches the same payload
Ask_Again ==
    /\ pc = "done"
    /\ Len(frames) < MaxRepeats
    /\ frames' = Append(frames, CurrentFrame)
    /\ tool' = ""
    /\ pc' = "idle"
    /\ parsed_data' = PyNone
    /\ url_details' = <<>>
    /\ update_analysis' = PyNone
    /\ progress' = <<>>
    /\ error_calls' = <<>>
    /\ result' = PyNone
    /\ limit_arg' = 0
    /\ UNCHANGED <<harness_vars, clock, current, response, invocations, fetches>>

InitRepeat ==
    /\ sitemap_data = EmptyDict
    /\ details_in = <<>>
    /\ clock \in Clocks
    /\ unit = NotCalled
    /\ tool = ""
    /\ pc = "idle"
    /\ response \in RepeatResponses
    /\ parsed_data = PyNone
    /\ url_details = <<>>
    /\ update_analysis = PyNone
    /\ progress = <<>>
    /\ error_calls = <<>>
    /\ result = PyNone
    /\ limit_arg = 0
    /\ invocations = 0
    /\ fetches = 0
    /\ current = 1
    /\ frames = <<>>

NextRepeat == Next \/ Ask_Again

SpecRepeat == InitRepeat /\ [][NextRepeat]_vars

(***************************************************************************)
(* A server that reads sitemaps of one large and one small domain          *)
(***************************************************************************)
\* the number of distinct first path segments of the large domain and the
\* number of locations of the small one, which is the default limit
ManyPaths == 21
FewLocations == 10

\* "http://<host>.co/<c>/f" for the i-th letter c
PathLoc(host, i) ==
    <<"h","t","t","p",":","/","/", host, ".","c","o","/", LowerChars[i], "/","f">>

\* FewLocations locations of b.co, then ManyPaths locations of a.co that
\* differ in their first path segment, then the first of these again
ManyPathsTree ==
    UrlsetOf([i \in 1..(FewLocations + ManyPaths + 1) |->
                 PyStr(IF i <= FewLocations THEN PathLoc("b", 1)
                       ELSE IF i <= FewLocations + ManyPaths
                            THEN PathLoc("a", i - FewLocations)
                       ELSE PathLoc("a", 1))])

DomainResponses ==
    {FetchFails, XmlInvalid, Fetched(ManyPathsTree)}
    \cup {Fetched(t) : t \in LocationTrees}

InitDomains ==
    /\ sitemap_data = EmptyDict
    /\ details_in = <<>>
    /\ clock \in Clocks
    /\ unit = NotCalled
    /\ tool = ""
    /\ pc = "idle"
    /\ response \in DomainResponses
    /\ parsed_data = PyNone
    /\ url_details = <<>>
    /\ update_analysis = PyNone
    /\ progress = <<>>
    /\ error_calls = <<>>
    /\ result = PyNone
    /\ limit_arg = 0
    /\ invocations = 0
    /\ fetches = 0
    /\ current = 1
    /\ frames = <<>>

SpecDomains == InitDomains /\ [][Next]_vars

(***************************************************************************)
(* A server that validates one payload, up to the sizes the checks of      *)
(* validate_sitemap are about                                              *)
(***************************************************************************)
\* the positions of the objectionable locations
BadPositions(n) ==
    {{}, {1}, {n}, 1..(IF n < 6 THEN n ELSE 6), (1..(IF n < 6 THEN n ELSE 6)) \cup {n}}

\* len(response.content) in bytes: no less than the elements take
PayloadSizes == {64 * 1024, 10 * MiB, 10 * MiB + 1, 50 * MiB, 50 * MiB + 1}
LargePayloadSizes == {2 * MiB, 50 * MiB + 1}

\* sitemaps around the number of checked locations, and sitemaps around the
\* limit of the number of locations
CheckedSitemaps ==
    {UrlsetPayload(n, bad, loc, size) :
        n \in {1, 6, CheckedUrls, CheckedUrls + 1},
        bad \in BadPositions(6) \cup {{CheckedUrls}, {CheckedUrls + 1},
                                      (1..6) \cup {CheckedUrls + 1}},
        loc \in {"relative", "long", "long relative"},
        size \in PayloadSizes}
LargeSitemaps ==
    {UrlsetPayload(n, bad, "relative", size) :
        n \in {UrlLimit, UrlLimit + 1}, bad \in {{}, 1..6}, size \in LargePayloadSizes}

\* documents without locations: unknown roots, an empty urlset, an index of
\* one sitemap, a <loc/> without text
OtherDocuments ==
    {PyDict([key \in {"foo"} |-> EmptyDict]),
     PyDict([key \in {"rss"} |-> PyDict([k2 \in {"url"} |-> MkDict([loc |-> PyStr(LocA)])])]),
     PyDict([key \in {"urlset"} |-> EmptyDict]),
     PyDict([key \in {"sitemapindex"} |-> PyDict([k2 \in {"sitemap"} |->
         MkDict([loc |-> PyStr(LocA)])])]),
     PyDict([key \in {"urlset"} |-> PyDict([k2 \in {"url"} |-> MkDict([loc |-> PyNone])])])}

ValidateResponses ==
    {FetchFails, XmlInvalid}
    \cup {FetchedOfSize(t, size) : t \in OtherDocuments, size \in PayloadSizes}
    \cup {r \in CheckedSitemaps \cup LargeSitemaps : r.bad \subseteq 1..r.n}

InitValidate ==
    /\ sitemap_data = EmptyDict
    /\ details_in = <<>>
    /\ clock = MkDatetime(2024, 1, 10, 12, 0, 0, FALSE, 0).val
    /\ unit = NotCalled
    /\ tool = ""
    /\ pc = "idle"
    /\ response \in ValidateResponses
    /\ parsed_data = PyNone
    /\ url_details = <<>>
    /\ update_analysis = PyNone
    /\ progress = <<>>
    /\ error_calls = <<>>
    /\ result = PyNone
    /\ limit_arg = 0
    /\ invocations = 0
    /\ fetches = 0
    /\ current = 1
    /\ frames = <<>>

NextValidate == Validate

SpecValidate == InitValidate /\ [][NextValidate]_vars

(***************************************************************************)
(* Claims about whole requests (Spec)                                      *)
(***************************************************************************)
ParseDone == tool = "parse_sitemap" /\ pc = "done"
UpdatesDone == tool = "analyze_update_patterns" /\ pc = "done"

\* the fetched payload parsed to a tree with neither urlset nor sitemapindex
\* at top level
UnknownDocument ==
    /\ response.kind = "ok"
    /\ "urlset" \notin DOMAIN response.data.m
    /\ "sitemapindex" \notin DOMAIN response.data.m

\* C6: a document that is neither a urlset nor a sitemapindex is parsed with
\* success: no error is reported, total_urls is 0, the URL sequence is empty
\* and sitemap_type is unknown.
C6_UnknownParsesEmpty ==
    (ParseDone /\ UnknownDocument) =>
        /\ result.success
        /\ result.total_urls = 0
        /\ result.urls = <<>>
        /\ result.sitemap_type = "unknown"
        /\ error_calls = <<>>

\* C6 witness: parse_sitemap finished on an unknown document whose root holds
\* url elements with a location
C6_Witness ==
    /\ ParseDone /\ UnknownDocument
    /\ \E key \in DOMAIN response.data.m :
          ElementsOf(response.data, key, "url") # <<>>
    /\ progress = <<0, 1, 2, 3>>

\* the fetched payload is a urlset whose url elements are all elements with
\* children
UrlsetFetched ==
    /\ response.kind = "ok"
    /\ "urlset" \in DOMAIN response.data.m
    /\ response.data.m["urlset"].k = "dict"
    /\ "url" \in DOMAIN response.data.m["urlset"].m
    /\ \A i \in 1..Len(ElementsOf(response.data, "urlset", "url")) :
          ElementsOf(response.data, "urlset", "url")[i].k = "dict"

FetchedElements == ElementsOf(response.data, "urlset", "url")
Dated(e) == Truthy(FieldOrNone(e, "lastmod"))
DateOf(e) == ParseLastmod(FieldOrNone(e, "lastmod").s)
NonFinitePriority(e) ==
    /\ Truthy(FieldOrNone(e, "priority"))
    /\ ParseFloat(FieldOrNone(e, "priority").s).exc = ""
    /\ ParseFloat(FieldOrNone(e, "priority").s).val.kind # "finite"

\* the instants of the parsed last-modified values of the payload, a
\* timestamp without offset read as UTC
FetchedInstants ==
    {Instant(DateOf(FetchedElements[i]).val) :
        i \in {j \in 1..Len(FetchedElements) : Dated(FetchedElements[j])}}

\* C7: for a payload whose last-modified values are each an ISO-8601
\* timestamp or a bare date, in any mixture (locations present, priorities
\* finite), analyze_update_patterns returns success and date_range holds the
\* minimum and the maximum of the parsed values.
C7_MixedDateFormats ==
    (/\ UpdatesDone /\ UrlsetFetched
     /\ \A i \in 1..Len(FetchedElements) :
           /\ HasLocation(FetchedElements[i])
           /\ ~NonFinitePriority(FetchedElements[i])
           /\ Dated(FetchedElements[i]) => DateOf(FetchedElements[i]).exc = "")
    => /\ result.success
       /\ FetchedInstants # {} =>
             LET range == result.update_patterns.lastmod_analysis.date_range IN
             /\ range.earliest.k = "datetime" /\ range.latest.k = "datetime"
             /\ Instant(range.earliest) \in FetchedInstants
             /\ Instant(range.latest) \in FetchedInstants
             /\ \A t \in FetchedInstants :
                   Instant(range.earliest) <= t /\ t <= Instant(range.latest)

\* no two parsed last-modified values of the payload differ in carrying an
\* offset
OneKindOfDate ==
    \A i, j \in 1..Len(FetchedElements) :
        (/\ Dated(FetchedElements[i]) /\ DateOf(FetchedElements[i]).exc = ""
         /\ Dated(FetchedElements[j]) /\ DateOf(FetchedElements[j]).exc = "")
        => DateOf(FetchedElements[i]).val.aware = DateOf(FetchedElements[j]).val.aware

\* C10: field-level anomalies never fail a request: whatever records of the
\* payload lack a location, carry an unparsable last-modified value or a
\* priority that is no decimal in [0,1] (text, inf, nan),
\* analyze_update_patterns returns success, and only the records without a
\* location are left out of total_urls.
C10_AnomaliesNeverFail ==
    (UpdatesDone /\ UrlsetFetched /\ OneKindOfDate) =>
        /\ result.success
        /\ result.total_urls =
              Cardinality({i \in 1..Len(FetchedElements) : HasLocKey(FetchedElements[i])})

(***************************************************************************)
(* Claims about the entry points and the lookups (Spec)                    *)
(***************************************************************************)
EntryPoints ==
    {"parse_sitemap", "analyze_sitemap", "validate_sitemap", "extract_domain_info",
     "analyze_update_patterns"}

EntryPointDone == tool \in EntryPoints /\ pc = "done"

\* a tagged result: success:true, or success:false with error and source_url
Tagged(r) ==
    /\ "success" \in DOMAIN r
    /\ r.success \/ {"error", "source_url"} \subseteq DOMAIN r

\* C11: every core entry point (parse, analyze, validate, extract_domains,
\* analyze_updates) returns a tagged result for every payload and lets no
\* exception reach the caller, also when the exception is raised after the
\* parse phase, while hosts and paths are derived from the locations.
C11_TaggedResults == EntryPointDone => Tagged(result)

\* C12: for every entry point a transport failure and a parse failure give
\* distinguishable failure results: the error of a failed fetch carries the
\* network-error label, the error of invalid XML carries the parse-error
\* label, and the two labels differ.
C12_FailureLabels ==
    /\ NetworkErrorLabel # ParseErrorLabel
    /\ (EntryPointDone /\ response = FetchFails) =>
           (~result.success /\ result.error.label = NetworkErrorLabel)
    /\ (EntryPointDone /\ response = XmlInvalid) =>
           (~result.success /\ result.error.label = ParseErrorLabel)

\* the total of every report_progress call
ProgressTotal == 3

\* C13: within one request of an entry point at least one progress
\* notification is emitted, the done values start at 0, are strictly
\* increasing and never exceed the total, and the notification with
\* done = total is emitted only on a path that returns success:true.
C13_OrderedProgress ==
    EntryPointDone =>
        /\ Len(progress) >= 1
        /\ progress[1] = 0
        /\ \A i \in 1..(Len(progress) - 1) : progress[i] < progress[i + 1]
        /\ \A i \in 1..Len(progress) : progress[i] <= ProgressTotal
        /\ (\E i \in 1..Len(progress) : progress[i] = ProgressTotal) =>
               (Tagged(result) /\ result.success)

\* the error events the diagnostics sink received: those whose coroutine ran
Delivered(calls) == SelectSeq(calls, LAMBDA c : c.awaited)

\* C14: on every failing request exactly one error event is delivered to the
\* diagnostics sink, before the success:false result is returned; on a
\* successful request no error event is delivered.
C14_OneErrorEvent ==
    (EntryPointDone /\ Tagged(result)) =>
        Len(Delivered(error_calls)) = (IF result.success THEN 0 ELSE 1)

\* analyze_sitemap has returned its report
AnalyzeDone ==
    tool = "analyze_sitemap" /\ pc = "done" /\ Tagged(result) /\ result.success

\* the counts of the hosts, path prefixes and extensions of the normalized
\* locations, in first-insertion order
AllCounts ==
    AnalyzeUrls(url_details, [domains |-> <<>>, paths |-> <<>>, extensions |-> <<>>]).val

\* entry x comes before entry y in the order of descending count, equal
\* counts in the order of first insertion into counts
RankedBefore(counts, x, y) ==
    \/ x.count > y.count
    \/ /\ x.count = y.count
       /\ (CHOOSE i \in 1..Len(counts) : counts[i] = x)
             < (CHOOSE i \in 1..Len(counts) : counts[i] = y)

\* mapping m holds the ten first entries of counts, or all when there are
\* fewer, in that order
IsTopTen(m, counts) ==
    /\ Len(m) = (IF Len(counts) < 10 THEN Len(counts) ELSE 10)
    /\ \A i \in 1..Len(m) : \E j \in 1..Len(counts) : counts[j] = m[i]
    /\ \A i, j \in 1..Len(m) : i < j => RankedBefore(counts, m[i], m[j])
    /\ \A j \in 1..Len(counts) :
          (\A i \in 1..Len(m) : m[i] # counts[j]) =>
              \A i \in 1..Len(m) : RankedBefore(counts, m[i], counts[j])

\* C17: each of the three frequency mappings of analyze (domain, path
\* prefix, extension) is truncated to at most 10 entries, those with the
\* highest counts in descending order, equal counts kept in first-insertion
\* order.
C17_TopTenMappings ==
    AnalyzeDone =>
        /\ IsTopTen(result.domain_distribution, AllCounts.domains)
        /\ IsTopTen(result.path_patterns, AllCounts.paths)
        /\ IsTopTen(result.file_extensions, AllCounts.extensions)

\* the path of the i-th normalized location
PathOfLocation(i) == urlparse(url_details[i]).val.path.s

\* the path has no non-empty segment
NoSegment(path) == \A i \in 1..Len(path) : path[i] = "/"

RECURSIVE SumCounts(_)
SumCounts(counts) ==
    IF counts = <<>> THEN 0 ELSE Head(counts).count + SumCounts(Tail(counts))

\* C18: analyze counts exactly one path prefix for every location: the
\* first non-empty path segment, or / when the path has none, so that a URL
\* with an empty path is counted under / and, where nothing is truncated,
\* the path-prefix counts sum to total_urls.
C18_OnePrefixPerLocation ==
    (AnalyzeDone /\ Len(AllCounts.paths) <= 10) =>
        /\ SumCounts(result.path_patterns) = result.total_urls
        /\ \A i \in 1..Len(url_details) :
              NoSegment(PathOfLocation(i)) =>
                  \E j \in 1..Len(result.path_patterns) :
                      result.path_patterns[j].key = <<"/">>

ParseExtractedRun(resp, urls) ==
    IF urls.exc # ""
    THEN [result |-> Failure(ParseErrorLabel, urls.exc), progress |-> <<0, 1, 2>>]
    ELSE [result |-> ParseResult(resp.data, urls.val), progress |-> <<0, 1, 2, 3>>]

\* lines 38-71 run without interruption
ParseInternalRun(resp) ==
    IF resp.kind = "RequestException"
    THEN [result |-> Failure(NetworkErrorLabel, "RequestException"), progress |-> <<0>>]
    ELSE IF resp.kind # "ok"
    THEN [result |-> Failure(ParseErrorLabel, resp.kind), progress |-> <<0, 1>>]
    ELSE ParseExtractedRun(resp, _extract_urls(resp.data))

\* parse_sitemap, analyze_sitemap and extract_domain_info after
\* _parse_sitemap_internal has returned run: lines 87-90, 108-148, 238-278
DerivedRuns(t, run, lim) ==
    IF ~run.result.success \/ t = "parse_sitemap" THEN {run}
    ELSE IF t = "analyze_sitemap"
    THEN {[result |-> AnalysisOf(run.result,
                         AnalyzeUrls(run.result.urls,
                             [domains |-> <<>>, paths |-> <<>>, extensions |-> <<>>])),
           progress |-> run.progress]}
    ELSE {[result |-> d, progress |-> run.progress] :
             d \in DomainInfoOf(run.result, DomainInfoLoop(run.result.urls, <<>>, lim))}

\* validate_sitemap run without interruption
ValidateRun(outcome) ==
    [result |-> IF outcome.exc # "" THEN Failure(ValidateFailedLabel, outcome.exc)
                ELSE outcome.val,
     progress |-> <<>>]

\* lines 305-375 of analyze_update_patterns run without interruption
UpdatesRunFinished(resp, details, analysis, recent_updates, domain_updates, now) ==
    IF recent_updates.exc # ""
    THEN [result |-> Failure(AnalyzeFailedLabel, recent_updates.exc),
          progress |-> <<0, 1, 2>>]
    ELSE IF domain_updates.exc # ""
    THEN [result |-> Failure(AnalyzeFailedLabel, domain_updates.exc),
          progress |-> <<0, 1, 2>>]
    ELSE [result |-> UpdatesResult(resp.data, details, analysis, recent_updates.val,
                                   domain_updates.val, now),
          progress |-> <<0, 1, 2, 3>>]

\* lines 302-375
UpdatesRunAnalyzed(resp, details, analysis, now) ==
    IF analysis.exc # ""
    THEN [result |-> Failure(AnalyzeFailedLabel, analysis.exc), progress |-> <<0, 1>>]
    ELSE UpdatesRunFinished(resp, details, analysis.val, _get_recent_updates(details, 50),
                            DomainLoop(details, <<>>), now)

\* lines 299-375
UpdatesRunDetailed(resp, details, now) ==
    IF details.exc # ""
    THEN [result |-> Failure(AnalyzeFailedLabel, details.exc), progress |-> <<0>>]
    ELSE UpdatesRunAnalyzed(resp, details.val,
                            _analyze_update_patterns(details.val, now), now)

\* what a request of entry point t with limit lim may return and report when
\* it is the only request, its fetch gives resp and the clock shows now
RunAlone(t, resp, lim, now) ==
    CASE t \in InternalParseTools -> DerivedRuns(t, ParseInternalRun(resp), lim)
      [] t = "validate_sitemap" -> {ValidateRun(ValidateBody(resp))}
      [] t = "analyze_update_patterns" ->
            {UpdatesRunDetailed(resp, UpdatesFetched(resp), now)}

\* the frame of request i
FrameOf(i) == IF i = current THEN CurrentFrame ELSE frames[i]

IsPrefix(s, t) == Len(s) <= Len(t) /\ SubSeq(t, 1, Len(s)) = s

\* what frame f holds agrees with a run of its request alone
AsAlone(f) ==
    \E run \in RunAlone(f.tool, f.response, f.limit_arg, clock) :
        /\ IsPrefix(f.progress, run.progress)
        /\ f.pc = "done" => (f.result = run.result /\ f.progress = run.progress)

\* C16: concurrent requests do not interfere: however two or more requests
\* are interleaved at their suspension points, the result of each request and
\* its own ordered progress sequence are those of the request run alone on
\* its own fetched payload.
C16_NoInterference ==
    \A i \in DOMAIN frames : FrameOf(i).tool \in EntryPoints => AsAlone(FrameOf(i))

\* C16 witness: an analysis has returned its report while a request for the
\* update patterns of another payload is suspended before its last phase
C16_Witness ==
    /\ tool = "analyze_sitemap" /\ pc = "done" /\ Tagged(result) /\ result.success
    /\ \E i \in DOMAIN frames \ {current} :
          /\ frames[i].tool = "analyze_update_patterns"
          /\ frames[i].pc = "recent"
          /\ frames[i].response # response
          /\ frames[i].url_details # url_details

(***************************************************************************)
(* Claims about validate_sitemap (SpecValidate)                            *)
(***************************************************************************)
ValidateSucceeded == tool = "validate_sitemap" /\ pc = "done" /\ result.success

\* the elements of the fetched document that the normalizer makes records of
NormalizedElements ==
    IF "urlset" \in DOMAIN Received(response).data.m
    THEN SelectSeq(ElementsOf(Received(response).data, "urlset", "url"), HasLocKey)
    ELSE SelectSeq(ElementsOf(Received(response).data, "sitemapindex", "sitemap"), HasLocKey)

\* the issues of one kind, in the order of the report
IssuesOfKind(kinds) == SelectSeq(result.validation_issues, LAMBDA x : x.kind \in kinds)

\* C22: validate reports a count-limit issue iff the number of normalized
\* records is strictly greater than 50,000: 50,001 records produce the issue
\* and exactly 50,000 records do not.
C22_CountLimit ==
    ValidateSucceeded =>
        (IssuesOfKind({"url_count"}) # <<>> <=> Len(NormalizedElements) > UrlLimit)

\* C22 witness: a sitemap of 50,001 records was validated and the count
\* issue is in the report
C22_Witness ==
    /\ ValidateSucceeded
    /\ Len(NormalizedElements) = UrlLimit + 1
    /\ IssuesOfKind({"url_count"}) # <<>>

\* C23: the payload size falls in one of three bands: above 50 MiB there is
\* exactly one size issue and no warning; above 10 MiB and up to 50 MiB there
\* is exactly one size warning and no size issue; below there is neither;
\* nothing but the size puts an entry in the warnings list.
C23_SizeBands ==
    ValidateSucceeded =>
        /\ response.size > 50 * MiB =>
              Len(IssuesOfKind({"file_size"})) = 1 /\ result.warnings = <<>>
        /\ (response.size > 10 * MiB /\ response.size <= 50 * MiB) =>
              /\ IssuesOfKind({"file_size"}) = <<>>
              /\ Len(result.warnings) = 1
              /\ result.warnings[1].kind = "file_large"
        /\ response.size <= 10 * MiB =>
              IssuesOfKind({"file_size"}) = <<>> /\ result.warnings = <<>>

\* C23 witness: a payload of exactly 50 MiB with a location without scheme
\* got the size warning next to the format issue
C23_Witness ==
    /\ ValidateSucceeded
    /\ response.size = 50 * MiB
    /\ result.warnings # <<>>
    /\ IssuesOfKind({"url_scheme"}) # <<>>

\* the violations of the first hundred records: <<i, 1>> for a location of
\* more than 2048 characters at position i, <<i, 2>> for one that starts
\* with neither http:// nor https://
ViolationsAmong(elements) ==
    {v \in (1..(IF Len(elements) < CheckedUrls THEN Len(elements) ELSE CheckedUrls))
              \X {1, 2} :
        IF v[2] = 1 THEN Len(elements[v[1]].m["loc"].s) > UrlLengthLimit
        ELSE ~HasHttpScheme(elements[v[1]].m["loc"].s)}
Violations == ViolationsAmong(NormalizedElements)

\* v comes before w in record order
ViolationBefore(v, w) == v[1] < w[1] \/ (v[1] = w[1] /\ v[2] < w[2])

\* the issue that reports violation v
IssueFor(v) == [kind |-> IF v[2] = 1 THEN "url_length" ELSE "url_scheme", index |-> v[1]]

\* issues are the first ReportedIssues of violations, in record order
FirstOfViolations(issues, violations) ==
    /\ Len(issues) =
          (IF Cardinality(violations) < ReportedIssues THEN Cardinality(violations)
           ELSE ReportedIssues)
    /\ \A k \in 1..Len(issues) :
          \E v \in violations :
              /\ issues[k] = IssueFor(v)
              /\ Cardinality({w \in violations : ViolationBefore(w, v)}) = k - 1

\* C24: the format issues of a validate report are exactly the first five,
\* in record order, of the violations found among the first 100 records
\* (location longer than 2048 characters; location starting with neither
\* http:// nor https://): a violating location at position 101 or later
\* contributes no issue and violations beyond the fifth are suppressed.
C24_FirstFiveOfFirstHundred ==
    ValidateSucceeded => FirstOfViolations(IssuesOfKind({"url_length", "url_scheme"}), Violations)

\* C24 witness: the report of a sitemap of 101 records whose last location
\* has no scheme holds no format issue
C24_Witness ==
    /\ ValidateSucceeded
    /\ Len(NormalizedElements) = CheckedUrls + 1
    /\ ~HasHttpScheme(NormalizedElements[CheckedUrls + 1].m["loc"].s)
    /\ IssuesOfKind({"url_length", "url_scheme"}) = <<>>

\* C25: in every successful validate result is_valid is true iff
\* validation_issues is empty; warnings do not make a sitemap invalid, and a
\* document classified unknown is invalid.
C25_ValidIffNoIssues ==
    ValidateSucceeded =>
        /\ result.is_valid <=> result.validation_issues = <<>>
        /\ UnknownDocument => ~result.is_valid

\* C25 witness: a sitemap with a size warning is valid
C25_Witness ==
    /\ ValidateSucceeded
    /\ result.warnings # <<>>
    /\ result.is_valid

\* C29: validation_issues holds at most one count issue, one size issue,
\* five format issues and one unknown-format issue; an unknown document has
\* no records, so the list has at most 7 entries; the limit of five on the
\* format issues drops neither the count issue nor the size issue.
C29_IssuesBounded ==
    ValidateSucceeded =>
        /\ Len(IssuesOfKind({"url_count"})) <= 1
        /\ Len(IssuesOfKind({"file_size"})) <= 1
        /\ Len(IssuesOfKind({"url_length", "url_scheme"})) <= ReportedIssues
        /\ Len(IssuesOfKind({"format"})) <= 1
        /\ UnknownDocument => result.total_urls = 0
        /\ Len(result.validation_issues) <= 7
        /\ Len(NormalizedElements) > UrlLimit => IssuesOfKind({"url_count"}) # <<>>
        /\ response.size > 50 * MiB => IssuesOfKind({"file_size"}) # <<>>

\* C29 witness: a report of seven issues: the count, the size and five of
\* the six violations
C29_Witness ==
    /\ ValidateSucceeded
    /\ Len(result.validation_issues) = 7
    /\ Cardinality(Violations) > ReportedIssues
    /\ IssuesOfKind({"url_count"}) # <<>>
    /\ IssuesOfKind({"file_size"}) # <<>>

DomainsReturned ==
    tool = "extract_domain_info" /\ pc = "done" /\ Tagged(result) /\ result.success

\* the locations of one domain, in the order of the input
LocationsOf(domain) ==
    SelectSeq(url_details, LAMBDA url_item : urlparse(url_item).val.netloc = domain)

RECURSIVE SumOfCounts(_)
SumOfCounts(entries) ==
    IF entries = <<>> THEN 0 ELSE Head(entries).count + SumOfCounts(Tail(entries))

\* min(count, max(limit, 0))
SampleLength(count, lim) ==
    IF lim <= 0 THEN 0 ELSE IF count < lim THEN count ELSE lim

\* C30: in every successful result of extract_domain_info the per-domain
\* counts sum to total_urls, total_domains is the number of keys of domains,
\* the domains are ordered by count descending, the sample_urls of a domain
\* are the first min(count, max(limit, 0)) of that domain's locations in
\* input order, and a domain's paths hold at most 20 entries.
C30_DomainInfo ==
    DomainsReturned =>
        /\ result.total_urls = Len(url_details)
        /\ SumOfCounts(result.domains) = result.total_urls
        /\ result.total_domains = Len(result.domains)
        /\ result.total_domains = Cardinality({urlparse(url_details[i]).val.netloc :
                                                  i \in 1..Len(url_details)})
        /\ \A i, j \in 1..Len(result.domains) :
              /\ (i < j) => result.domains[i].count >= result.domains[j].count
              /\ (i # j) => result.domains[i].key # result.domains[j].key
        /\ \A i \in 1..Len(result.domains) :
              /\ result.domains[i].count = Len(LocationsOf(result.domains[i].key))
              /\ result.domains[i].sample_urls =
                    SubSeq(LocationsOf(result.domains[i].key), 1,
                           SampleLength(result.domains[i].count, limit_arg))
              /\ Cardinality(result.domains[i].paths) <= 20

\* C30 witness: with limit 10 the domain that comes second in the input has
\* more than 10 locations and more than 20 paths and is returned first, and
\* the other domain has as many locations as the limit
C30_Witness ==
    /\ DomainsReturned
    /\ limit_arg = 10
    /\ Len(result.domains) = 2
    /\ result.domains[1].key # urlparse(url_details[1]).val.netloc
    /\ result.domains[1].count > 10
    /\ Len(result.domains[1].sample_urls) = 10
    /\ Cardinality(result.domains[1].paths) = 20
    /\ result.domains[2].count = limit_arg

====
